---- MODULE Spec2Model ----
(***************************************************************************)
(* A model of the oras-py registry client: the retry wrappers around the   *)
(* request dispatcher, the dispatcher with its authentication handshake,   *)
(* blob upload (monolithic and chunked), and the push and pull flows.      *)
(* Each part is a small state machine over its own variables; a            *)
(* specification runs one part and leaves the others idle.                 *)
(***************************************************************************)
EXTENDS Integers, Sequences, FiniteSets, TLC

VARIABLES
    \* ---- retry wrapper (oras/decorator.py retry, build/lib classretry)
    wrapper,    \* which wrapper decorates the function: "retry" | "classretry"
    attempt,    \* the wrapper's local counter
    calls,      \* invocations of the wrapped function in this call
    slept,      \* the time.sleep durations, in order
    hist,       \* the outcome of every invocation, in order
    rpc,        \* "run" | "returned" | "raised"
    rres,       \* what the caller got: an outcome, or NoOutcome
    \* ---- provider credentials and dispatcher (provider.py Registry)
    basicAuth,  \* self._basic_auth: "none" | "cred"
    token,      \* self.token: "none" | "tok"
    hdrAuth,    \* self.headers["Authorization"], or "none" when absent
    tlsVerify,  \* self._tls_verify
    dpc,        \* position in do_request
    reqHdr,     \* Authorization of the local headers dict of this call
    resp,       \* the latest registry response of this call
    first,      \* the first registry response of this call
    dres,       \* the response do_request returned
    dlog,       \* every HTTP send of this call, in order
    authCalls,  \* calls of authenticate_request in this call
    snap,       \* the credentials the provider held when the call began
    nreq,       \* do_request calls begun so far
    \* ---- blob upload (provider.py upload_blob, put_upload, chunked_upload)
    upc,        \* position in upload_blob
    uSize,      \* size of the blob file in bytes
    uChunked,   \* do_chunked
    uStart,     \* chunked_upload's start
    uOff,       \* bytes of the file read so far
    ulog,       \* every request of this upload, in order
    uRes,       \* the response upload_blob returned
    uLoc,       \* the Location header of the answer to the session POST
    \* ---- the registry's repository (the other end of the requests)
    regBlobs,   \* contents of the blobs stored
    regManifest,\* manifest stored under the tag
    tagBefore,  \* manifest stored under the tag when push was called
    \* ---- Registry.push (provider.py)
    ppc,        \* position in push
    pFiles,     \* kwargs["files"]
    pValidate,  \* validate_path
    pConfig,    \* kwargs["manifest_config"]
    pIdx,       \* index of the file the loop is at
    pLayers,    \* manifest["layers"]
    pCur,       \* the blob upload_blob is uploading
    pResp,      \* push's local variable response
    plog,       \* every request of this push, in order
    pRes,       \* the response push returned
    pErr,       \* the exception push raised
    \* ---- Registry.pull (provider.py)
    lpc,        \* position in pull
    lOverwrite, \* kwargs["overwrite"]
    lManifest,  \* the manifest fetched
    lIdx,       \* index of the layer the loop is at
    lFiles,     \* files, the list pull returns
    lOut,       \* the file system: path of a file -> its content
    lOut0,      \* the file system when pull was called
    llog,       \* every blob request of this pull, in order
    lErr,       \* what made pull raise
    \* ---- Container (container.py)
    cpc,        \* position in the container's life
    cName,      \* the name handed to Container()
    cRegistry,  \* the registry handed to Container(), <<>> for None
    cont,       \* the fields parse set
    cUri,       \* the uri property read after parse
    cont2,      \* the fields of Container(uri, registry)
    cUrl,       \* manifest_url() of the container
    \* ---- extract_targz (utils/fileio.py)
    tpc,        \* position in extract_targz
    tMembers,   \* tar.getmembers(), each the components of its name
    tIdx,       \* index of the member the loop is at
    tFs,        \* paths of the files extractall wrote
    \* ---- Registry.get_tags (provider.py)
    gpc,        \* position in get_tags
    gPages,     \* the sizes of the pages the registry serves the tags in
    gAll,       \* retrieve_all, N is None
    gN,         \* N when it is not None
    gPage,      \* the page url points at
    gTags,      \* tags, the list extract_tags extends
    gReqs,      \* requests sent so far
    gRes,       \* the list get_tags returned
    \* ---- Registry.delete_tag (provider.py)
    kpc,        \* position in delete_tag
    kName,      \* the container name delete_tag is given
    kTag,       \* the tag to delete
    kDigest,    \* digest, the Docker-Content-Digest of the HEAD response
    klog,       \* the requests sent, with the status each was answered
    kRes,       \* what delete_tag returned
    \* ---- Layout (layout/layout.py)
    ypc,        \* position in the layout operation
    yBlobs,     \* the blob files of the layout directory, by digest
    yIndex,     \* the manifests entries of index.json
    yTag,       \* the tag looked up in index.json
    yOrdered,   \* the list get_ordered_blobs returned
    \* ---- Layout.push_to_registry, Layout.pull_from_registry (layout/layout.py)
    xpc,        \* position in push_to_registry or pull_from_registry
    xTarget,    \* target
    xBlank,     \* whether digest 1 is the digest of the empty blob
    xOrdered,   \* ordered_blobs
    xIdx,       \* i + 1, the item of ordered_blobs the loop is at
    xlog,       \* the uploads sent, with the status each was answered
    xReg,       \* what the registry serves
    xDigest,    \* the digest target names, 0 when it names a tag
    xDir,       \* the blob files of the directory pulled into, by digest
    xDirIndex,  \* the manifests entries of its index.json
    xWrites,    \* the files pull_from_registry wrote, in the order it wrote them
    \* ---- AuthBackend.logout, AuthBackend._load_auth (auth/base.py), Registry.logout (provider.py)
    apc,        \* position: before the call, after logout, after _load_auth
    aClass,     \* the class whose method ran
    aHost,      \* hostname
    aBasic,     \* _basic_auth
    aToken,     \* token
    aAuths,     \* the auths map of the configuration, by hostname
    aAuths0,    \* the auths map before the call
    aHelpers,   \* the credHelpers map, by hostname
    aStore,     \* credsStore
    aCalls,     \* the credential helpers run, with what each did
    aRes,       \* what the call returned or raised
    \* ---- EcrAuth.authenticate_request (auth/ecr.py)
    epc,        \* position: between challenges, or after an exception
    eTokens,    \* _tokens, by realm
    eIssued,    \* the tokens GetAuthorizationToken has issued, oldest first
    eHdr,       \* the headers the last call returned
    eRetry,     \* the flag the last call returned
    eLast,      \* the last call: its response, refresh, and the cache before it
    \* ---- Registry.push, the temporary tar.gz of directory layers (provider.py)
    mpc,        \* position in push: the loop over files, the config and manifest, returned, raised
    mFiles,     \* files, each a plain file or a directory
    mIdx,       \* the file the loop is at
    mTmp,       \* the files whose temporary tar.gz is on disk
    mMade,      \* the files make_targz created a tar.gz for
    mlog,       \* the uploads of layers, with what upload_blob did
    mErr,       \* the exception push raised
    \* ---- TokenAuth.authenticate_request (auth/token.py)
    bpc,        \* position: between calls of authenticate_request
    bBasic,     \* _basic_auth, or that the attribute is not set
    bToken,     \* token, 0 for None
    bIssued,    \* how many tokens the realm has issued
    bSends,     \* the requests the last call sent to the realm
    bIn,        \* the last call: the challenge, refresh, and the token before it
    bOut,       \* what the last call returned or raised
    \* ---- one Registry used for several hosts
    spc,        \* position of the provider: ready, or inside a push or a pull
    sFile,      \* auths of the docker config file
    sAuths,     \* self._auths
    sBasic,     \* self._basic_auth
    sToken,     \* self.token
    sHdr,       \* self.headers['Authorization']
    sTarget,    \* registry host of the container pushed or pulled
    sLog,       \* sends of the last do_request call
    sOld,       \* secrets held when logout was last called
    sOps        \* calls the user of the provider has made

retryVars == <<wrapper, attempt, calls, slept, hist, rpc, rres>>

credVars == <<basicAuth, token, hdrAuth, tlsVerify>>

dispVars ==
    <<dpc, reqHdr, resp, first, dres, dlog, authCalls, snap, nreq>>

upVars == <<upc, uSize, uChunked, uStart, uOff, ulog, uRes, uLoc>>

regVars == <<regBlobs, regManifest, tagBefore>>

pushVars == <<ppc, pFiles, pValidate, pConfig, pIdx, pLayers, pCur, pResp, plog, pRes, pErr>>

pullVars ==
    <<lpc, lOverwrite, lManifest, lIdx, lFiles, lOut, lOut0, llog, lErr>>

contVars == <<cpc, cName, cRegistry, cont, cUri, cont2, cUrl>>

tarVars == <<tpc, tMembers, tIdx, tFs>>

tagVars == <<gpc, gPages, gAll, gN, gPage, gTags, gReqs, gRes>>

delVars == <<kpc, kName, kTag, kDigest, klog, kRes>>

layVars == <<ypc, yBlobs, yIndex, yTag, yOrdered>>

syncVars == <<xpc, xTarget, xBlank, xOrdered, xIdx, xlog, xReg, xDigest, xDir, xDirIndex, xWrites>>

authVars == <<apc, aClass, aHost, aBasic, aToken, aAuths, aAuths0, aHelpers, aStore, aCalls, aRes>>

ecrVars == <<epc, eTokens, eIssued, eHdr, eRetry, eLast>>

dirVars == <<mpc, mFiles, mIdx, mTmp, mMade, mlog, mErr>>

tokVars == <<bpc, bBasic, bToken, bIssued, bSends, bIn, bOut>>

sessVars == <<spc, sFile, sAuths, sBasic, sToken, sHdr, sTarget, sLog, sOld, sOps>>

vars == <<retryVars, credVars, dispVars, upVars, regVars, pushVars, pullVars, contVars, tarVars, tagVars, delVars, layVars, syncVars, authVars, ecrVars, dirVars, tokVars, sessVars>>

notRetry == <<credVars, dispVars, upVars, regVars, pushVars, pullVars, contVars, tarVars, tagVars, delVars, layVars, syncVars, authVars, ecrVars, dirVars, tokVars, sessVars>>

notDisp == <<retryVars, upVars, regVars, pushVars, pullVars, contVars, tarVars, tagVars, delVars, layVars, syncVars, authVars, ecrVars, dirVars, tokVars, sessVars>>

notUp == <<retryVars, credVars, dispVars, regVars, pushVars, pullVars, contVars, tarVars, tagVars, delVars, layVars, syncVars, authVars, ecrVars, dirVars, tokVars, sessVars>>

notUpCred == <<retryVars, dispVars, regVars, pushVars, pullVars, contVars, tarVars, tagVars, delVars, layVars, syncVars, authVars, ecrVars, dirVars, tokVars, sessVars>>

notPush == <<retryVars, credVars, dispVars, upVars, pullVars, contVars, tarVars, tagVars, delVars, layVars, syncVars, authVars, ecrVars, dirVars, tokVars, sessVars>>

notPushCred == <<retryVars, dispVars, upVars, pullVars, contVars, tarVars, tagVars, delVars, layVars, syncVars, authVars, ecrVars, dirVars, tokVars, sessVars>>

notPull == <<retryVars, credVars, dispVars, upVars, regVars, pushVars, contVars, tarVars, tagVars, delVars, layVars, syncVars, authVars, ecrVars, dirVars, tokVars, sessVars>>

notCont == <<retryVars, credVars, dispVars, upVars, regVars, pushVars, pullVars, tarVars, tagVars, delVars, layVars, syncVars, authVars, ecrVars, dirVars, tokVars, sessVars>>

notTar == <<retryVars, credVars, dispVars, upVars, regVars, pushVars, pullVars, contVars, tagVars, delVars, layVars, syncVars, authVars, ecrVars, dirVars, tokVars, sessVars>>

notTags == <<retryVars, credVars, dispVars, upVars, regVars, pushVars, pullVars, contVars, tarVars, delVars, layVars, syncVars, authVars, ecrVars, dirVars, tokVars, sessVars>>

notDel == <<retryVars, credVars, dispVars, upVars, regVars, pushVars, pullVars, contVars, tarVars, tagVars, layVars, syncVars, authVars, ecrVars, dirVars, tokVars, sessVars>>

notLay == <<retryVars, credVars, dispVars, upVars, regVars, pushVars, pullVars, contVars, tarVars, tagVars, delVars, syncVars, authVars, ecrVars, dirVars, tokVars, sessVars>>

notSync == <<retryVars, credVars, dispVars, upVars, regVars, pushVars, pullVars, contVars, tarVars, tagVars, delVars, layVars, authVars, ecrVars, dirVars, tokVars, sessVars>>

notAuth == <<retryVars, credVars, dispVars, upVars, regVars, pushVars, pullVars, contVars, tarVars, tagVars, delVars, layVars, syncVars, ecrVars, dirVars, tokVars, sessVars>>

notEcr == <<retryVars, credVars, dispVars, upVars, regVars, pushVars, pullVars, contVars, tarVars, tagVars, delVars, layVars, syncVars, authVars, dirVars, tokVars, sessVars>>

notDir == <<retryVars, credVars, dispVars, upVars, regVars, pushVars, pullVars, contVars, tarVars, tagVars, delVars, layVars, syncVars, authVars, ecrVars, tokVars, sessVars>>

notTok == <<retryVars, credVars, dispVars, upVars, regVars, pushVars, pullVars, contVars, tarVars, tagVars, delVars, layVars, syncVars, authVars, ecrVars, dirVars, sessVars>>

notSess == <<retryVars, credVars, dispVars, upVars, regVars, pushVars, pullVars, contVars, tarVars, tagVars, delVars, layVars, syncVars, authVars, ecrVars, dirVars, tokVars>>

(***************************************************************************)
(* The retry wrappers.                                                     *)
(***************************************************************************)

\* def retry(attempts=5, timeout=2) / classretry.__init__(attempts=5, timeout=2)
attempts == 5
timeout == 2

Wrappers == {"retry", "classretry"}

\* Status codes the wrapped request may answer with.
Statuses == {200, 401, 404, 500, 503}

\* Exceptions the wrapped request may raise.
Exceptions == {"SSLError", "AuthenticationException", "ConnectionError"}

Resp(s) == [kind |-> "resp", val |-> s]
Exc(e) == [kind |-> "exc", val |-> e]
NoOutcome == [kind |-> "none", val |-> 0]

Outcomes == {Resp(s) : s \in Statuses} \cup {Exc(e) : e \in Exceptions}

\* A wrapper that hands every response back, a 500 included.
RetryRaisesOnStatus_Never(w, status) == FALSE

\* retry: "if res.status_code == 500: ... raise ValueError"; classretry returns
\* whatever the function returned.
RetryRaisesOnStatus(w, status) == w = "retry" /\ status = 500

\* retry: "except AuthenticationException: raise / except SSLError: raise";
\* classretry has the single clause "except Exception".
RetryPropagates(w, e) ==
    w = "retry" /\ e \in {"AuthenticationException", "SSLError"}

\* sleep = timeout + 3**attempt
Backoff(a) == timeout + 3 ^ a

\* The outcome of one pass through the try block, as the except clauses see
\* it: a 500 response has become a ValueError.
InTry(w, o) ==
    IF o.kind = "resp" /\ RetryRaisesOnStatus(w, o.val)
    THEN Exc("ValueError")
    ELSE o

RetryInit ==
    /\ wrapper \in Wrappers
    /\ attempt = 0
    /\ calls = 0
    /\ slept = <<>>
    /\ hist = <<>>
    /\ rpc = "run"
    /\ rres = NoOutcome

RetryIdle ==
    /\ wrapper = "retry"
    /\ attempt = 0
    /\ calls = 0
    /\ slept = <<>>
    /\ hist = <<>>
    /\ rpc = "idle"
    /\ rres = NoOutcome

\* One pass of "while attempt < attempts: try: ... except ...".
RetryLoopCall ==
    /\ rpc = "run"
    /\ attempt < attempts
    /\ \E o \in Outcomes :
        LET t == InTry(wrapper, o) IN
        /\ calls' = calls + 1
        /\ hist' = Append(hist, o)
        /\ IF t.kind = "resp"
           THEN /\ rpc' = "returned"
                /\ rres' = t
                /\ UNCHANGED <<attempt, slept>>
           ELSE IF RetryPropagates(wrapper, t.val)
           THEN /\ rpc' = "raised"
                /\ rres' = t
                /\ UNCHANGED <<attempt, slept>>
           ELSE /\ slept' = Append(slept, Backoff(attempt))
                /\ attempt' = attempt + 1
                /\ UNCHANGED <<rpc, rres>>
    /\ UNCHANGED wrapper
    /\ UNCHANGED notRetry

\* The trailing "return func(*args, **kwargs)" after the loop.
RetryLastCall ==
    /\ rpc = "run"
    /\ attempt >= attempts
    /\ \E o \in Outcomes :
        /\ calls' = calls + 1
        /\ hist' = Append(hist, o)
        /\ rpc' = IF o.kind = "resp" THEN "returned" ELSE "raised"
        /\ rres' = o
    /\ UNCHANGED <<wrapper, attempt, slept>>
    /\ UNCHANGED notRetry

RetryNext ==
    \/ RetryLoopCall
    \/ RetryLastCall

(***************************************************************************)
(* The provider's credentials and the request dispatcher                   *)
(* (Registry.do_request, authenticate_request, request_anonymous_token).   *)
(***************************************************************************)

\* do_request calls made in one behaviour.
MaxRequests == 2

\* Status codes a registry answers a dispatched request with.
RegStatuses == {200, 401, 403, 404}

\* The Www-Authenticate header of a response: absent, present without a
\* realm, or present with a realm.
WwwKinds == {"absent", "norealm", "realm"}

RegResponses == [status : RegStatuses, www : WwwKinds]

NoResp == [status |-> 0, www |-> "absent"]

\* What the token endpoint answers: a non-200 status, a 200 whose body holds
\* neither token nor access_token, or a 200 with a token.
RealmAnswers == {"non200", "notoken", "token"}

RegSend(auth, verify, r) ==
    [to |-> "registry", auth |-> auth, verify |-> verify, ans |-> r.status]

RealmSend(auth, a) ==
    [to |-> "realm", auth |-> auth, verify |-> TRUE, ans |-> a]

\* "if response.status_code not in [401, 404]: return response"
NeedsAuth(status) == status \in {401, 404}

\* The fallback re-send without the test for a stored Authorization header.
FallbackApplies_AnyHeader(status, hdr) == status \in {401, 404}

\* "if response.status_code in [401, 404] and 'Authorization' in self.headers"
FallbackApplies(status, hdr) == status \in {401, 404} /\ hdr # "none"

\* headers.update(self.headers): the provider's Authorization, when it has
\* one, replaces that of the request.
UpdateHeaders(req, hdr) == IF hdr # "none" THEN hdr ELSE req

\* "Basic %s" % self._basic_auth
BasicHeader(b) == IF b = "none" THEN "Basic None" ELSE "Basic cred"

\* "Bearer %s" % self._basic_auth, as authenticate_request sets it when
\* self.token is set.
BearerOfBasic(b) == IF b = "none" THEN "Bearer None" ELSE "Bearer cred"

HeaderValues ==
    {"none", "Basic cred", "Bearer tok", "Bearer cred", "Bearer None",
     "Bearer anon", "Bearer svc"}

DispIdle ==
    /\ basicAuth = "none"
    /\ token = "none"
    /\ hdrAuth = "none"
    /\ tlsVerify = TRUE
    /\ dpc = "off"
    /\ reqHdr = "none"
    /\ resp = NoResp
    /\ first = NoResp
    /\ dres = NoResp
    /\ dlog = <<>>
    /\ authCalls = 0
    /\ snap = [basic |-> "none", token |-> "none", hdr |-> "none"]
    /\ nreq = 0

\* Registry.__init__: no token, no basic auth, empty headers.
DispInit ==
    /\ basicAuth = "none"
    /\ token = "none"
    /\ hdrAuth = "none"
    /\ tlsVerify \in BOOLEAN
    /\ dpc = "idle"
    /\ reqHdr = "none"
    /\ resp = NoResp
    /\ first = NoResp
    /\ dres = NoResp
    /\ dlog = <<>>
    /\ authCalls = 0
    /\ snap = [basic |-> "none", token |-> "none", hdr |-> "none"]
    /\ nreq = 0

\* Registry.set_basic_auth
SetBasicAuth ==
    /\ dpc = "idle"
    /\ basicAuth' = "cred"
    /\ hdrAuth' = BasicHeader("cred")
    /\ UNCHANGED <<token, tlsVerify, dispVars>>
    /\ UNCHANGED notDisp

\* Registry.set_token_auth
SetTokenAuth ==
    /\ dpc = "idle"
    /\ token' = "tok"
    /\ hdrAuth' = "Bearer tok"
    /\ UNCHANGED <<basicAuth, tlsVerify, dispVars>>
    /\ UNCHANGED notDisp

\* Registry.reset_basic_auth
ResetBasicAuth ==
    /\ dpc = "idle"
    /\ hdrAuth' = IF basicAuth # "none" THEN BasicHeader(basicAuth) ELSE "none"
    /\ UNCHANGED <<basicAuth, token, tlsVerify, dispVars>>
    /\ UNCHANGED notDisp

\* do_request up to its first return: the caller's headers either carry the
\* provider's headers or do not; the request is sent with
\* verify=self._tls_verify.
DoRequestSend ==
    /\ dpc = "idle"
    /\ nreq < MaxRequests
    /\ \E h \in {"none", hdrAuth}, r \in RegResponses :
        /\ reqHdr' = h
        /\ resp' = r
        /\ first' = r
        /\ dlog' = <<RegSend(h, tlsVerify, r)>>
        /\ IF NeedsAuth(r.status)
           THEN dpc' = "auth" /\ dres' = NoResp
           ELSE dpc' = "done" /\ dres' = r
    /\ authCalls' = 0
    /\ snap' = [basic |-> basicAuth, token |-> token, hdr |-> hdrAuth]
    /\ nreq' = nreq + 1
    /\ UNCHANGED credVars
    /\ UNCHANGED notDisp

\* authenticate_request without a Www-Authenticate header: nothing to parse.
AuthNoHeader ==
    /\ dpc = "auth"
    /\ resp.www = "absent"
    /\ dpc' = "fallback"
    /\ authCalls' = authCalls + 1
    /\ UNCHANGED <<reqHdr, resp, first, dres, dlog, snap, nreq>>
    /\ UNCHANGED credVars
    /\ UNCHANGED notDisp

\* authenticate_request with self.token set.
AuthWithToken ==
    /\ dpc = "auth"
    /\ resp.www # "absent"
    /\ token # "none"
    /\ hdrAuth' = BearerOfBasic(basicAuth)
    /\ dpc' = "resend"
    /\ authCalls' = authCalls + 1
    /\ UNCHANGED <<reqHdr, resp, first, dres, dlog, snap, nreq>>
    /\ UNCHANGED <<basicAuth, token, tlsVerify>>
    /\ UNCHANGED notDisp

\* authenticate_request with no Authorization in self.headers:
\* request_anonymous_token.
AuthAnonymous ==
    /\ dpc = "auth"
    /\ resp.www # "absent"
    /\ token = "none"
    /\ hdrAuth = "none"
    /\ authCalls' = authCalls + 1
    /\ IF resp.www = "norealm"
       THEN /\ dpc' = "fallback"
            /\ UNCHANGED <<hdrAuth, dlog>>
       ELSE \E a \in RealmAnswers :
            /\ dlog' = Append(dlog, RealmSend("none", a))
            /\ IF a = "token"
               THEN hdrAuth' = "Bearer anon" /\ dpc' = "resend"
               ELSE hdrAuth' = hdrAuth /\ dpc' = "fallback"
    /\ UNCHANGED <<reqHdr, resp, first, dres, snap, nreq>>
    /\ UNCHANGED <<basicAuth, token, tlsVerify>>
    /\ UNCHANGED notDisp

\* authenticate_request with an Authorization in self.headers: the realm is
\* asked with these headers; h.realm.startswith fails on a missing realm.
AuthWithHeader ==
    /\ dpc = "auth"
    /\ resp.www # "absent"
    /\ token = "none"
    /\ hdrAuth # "none"
    /\ authCalls' = authCalls + 1
    /\ IF resp.www = "norealm"
       THEN /\ dpc' = "raised"
            /\ UNCHANGED <<hdrAuth, dlog>>
       ELSE \E a \in RealmAnswers :
            /\ dlog' = Append(dlog, RealmSend(hdrAuth, a))
            /\ IF a = "non200"
               THEN hdrAuth' = hdrAuth /\ dpc' = "fallback"
               ELSE /\ hdrAuth' = IF a = "token" THEN "Bearer svc"
                                                ELSE "Bearer None"
                    /\ dpc' = "resend"
    /\ UNCHANGED <<reqHdr, resp, first, dres, snap, nreq>>
    /\ UNCHANGED <<basicAuth, token, tlsVerify>>
    /\ UNCHANGED notDisp

\* "if self.authenticate_request(response): headers.update(self.headers);
\* response = self.session.request(...)" (no verify argument: the session's
\* default, which verifies).
DoRequestResend ==
    /\ dpc = "resend"
    /\ \E r \in RegResponses :
        LET h == UpdateHeaders(reqHdr, hdrAuth) IN
        /\ reqHdr' = h
        /\ resp' = r
        /\ dlog' = Append(dlog, RegSend(h, TRUE, r))
    /\ dpc' = "fallback"
    /\ UNCHANGED <<first, dres, authCalls, snap, nreq>>
    /\ UNCHANGED credVars
    /\ UNCHANGED notDisp

\* The fallback send written as a loop: the request is sent again for as long
\* as the answer is 401 or 404.
DoRequestFallback_Loop ==
    /\ dpc = "fallback"
    /\ FallbackApplies(resp.status, hdrAuth)
    /\ \E r \in RegResponses :
        LET h == UpdateHeaders(reqHdr, hdrAuth) IN
        /\ reqHdr' = h
        /\ resp' = r
        /\ dres' = r
        /\ dlog' = Append(dlog, RegSend(h, TRUE, r))
    /\ dpc' = "fallback"
    /\ UNCHANGED <<first, authCalls, snap, nreq>>
    /\ UNCHANGED credVars
    /\ UNCHANGED notDisp

\* The fallback send with the provider's Authorization, then "return response".
DoRequestFallback ==
    /\ dpc = "fallback"
    /\ FallbackApplies(resp.status, hdrAuth)
    /\ \E r \in RegResponses :
        LET h == UpdateHeaders(reqHdr, hdrAuth) IN
        /\ reqHdr' = h
        /\ resp' = r
        /\ dres' = r
        /\ dlog' = Append(dlog, RegSend(h, TRUE, r))
    /\ dpc' = "done"
    /\ UNCHANGED <<first, authCalls, snap, nreq>>
    /\ UNCHANGED credVars
    /\ UNCHANGED notDisp

\* "return response" when the fallback does not apply.
DoRequestReturn ==
    /\ dpc = "fallback"
    /\ ~FallbackApplies(resp.status, hdrAuth)
    /\ dres' = resp
    /\ dpc' = "done"
    /\ UNCHANGED <<reqHdr, resp, first, dlog, authCalls, snap, nreq>>
    /\ UNCHANGED credVars
    /\ UNCHANGED notDisp

\* The caller has its answer (or its exception); the provider is free for
\* the next call.
DoRequestEnd ==
    /\ dpc \in {"done", "raised"}
    /\ dpc' = "idle"
    /\ UNCHANGED <<reqHdr, resp, first, dres, dlog, authCalls, snap, nreq>>
    /\ UNCHANGED credVars
    /\ UNCHANGED notDisp

DispNext ==
    \/ SetBasicAuth
    \/ SetTokenAuth
    \/ ResetBasicAuth
    \/ DoRequestSend
    \/ AuthNoHeader
    \/ AuthWithToken
    \/ AuthAnonymous
    \/ AuthWithHeader
    \/ DoRequestResend
    \/ DoRequestFallback
    \/ DoRequestReturn
    \/ DoRequestEnd

(***************************************************************************)
(* Blob upload: Registry.upload_blob, put_upload, chunked_upload.          *)
(***************************************************************************)

\* read_in_chunks(image, chunk_size=1024), as chunked_upload calls it.
ChunkSize == 1024

\* The largest blob is MaxChunks full chunks and a partial one.
MaxChunks == 2

BlobSizes ==
    {k * ChunkSize + r : k \in 0..MaxChunks, r \in {0, 1, ChunkSize - 1}}

\* Status codes a registry answers an upload request with.
UpStatuses == {201, 202, 400}

\* Every response is accepted.
Check200Ok_Always(status) == TRUE

\* _check_200_response: "if response.status_code not in [200, 201, 202]: raise"
Check200Ok(status) == status \in {200, 201, 202}

\* The well-known digest of the empty blob belongs to the blob of size 0.
IsBlankHash(size) == size = 0

\* upload_blob hands on whatever the upload returned.
UploadBlobResponse_AsIs(status, blank) == [status |-> status, synth |-> FALSE]

\* A rejected upload of any blob yields a fresh Response.
UploadBlobResponse_AnyDigest(status, blank) ==
    IF status \notin {200, 201, 202}
    THEN [status |-> 200, synth |-> TRUE]
    ELSE [status |-> status, synth |-> FALSE]

\* upload_blob: a rejected upload of the empty blob yields a fresh Response
\* with status_code 200.
UploadBlobResponse(status, blank) ==
    IF status \notin {200, 201, 202} /\ blank
    THEN [status |-> 200, synth |-> TRUE]
    ELSE [status |-> status, synth |-> FALSE]

NoUpResp == [status |-> 0, synth |-> FALSE]

\* image.read(chunk_size) at offset off of a file of the given size.
ReadChunk(size, off) ==
    IF size - off < ChunkSize THEN size - off ELSE ChunkSize

\* The range ends one past the last byte of the chunk.
ChunkEnd_Exclusive(start, len) == start + len

\* end = start + len(chunk) - 1
ChunkEnd(start, len) == start + len - 1

\* The next chunk starts on the last byte of this one.
NextStart_Overlap(end) == end

\* start = end + 1
NextStart(end) == end + 1

\* A request of an upload: method, Content-Range, Content-Length, whether
\* its URL carries the digest parameter, and the status it was answered with.
UpEntry(m, start, end, len, digest, status) ==
    [m |-> m, start |-> start, end |-> end, len |-> len, digest |-> digest,
     status |-> status]

\* The Location header of the answer to the session POST: none, a path, or
\* a full URL.
Locations == {"", "/v2/r/blobs/uploads/1", "http://reg/v2/r/blobs/uploads/1"}

NoLocation == "unset"

\* _get_location: an empty Location stays empty, a Location that does not
\* start with http gets the scheme and registry in front.
GetLocation(loc) ==
    CASE loc = "" -> ""
      [] loc = "/v2/r/blobs/uploads/1" -> "http://reg/v2/r/blobs/uploads/1"
      [] OTHER -> loc

\* Every answer counts as one with a session URL.
HasSession_Always(session_url) == TRUE

\* "if not session_url: raise ValueError"
HasSession(session_url) == session_url # ""

UpIdle ==
    /\ upc = "off"
    /\ uSize = 0
    /\ uChunked = FALSE
    /\ uStart = 0
    /\ uOff = 0
    /\ ulog = <<>>
    /\ uRes = NoUpResp
    /\ uLoc = NoLocation

UpInit ==
    /\ upc = "idle"
    /\ uSize = 0
    /\ uChunked = FALSE
    /\ uStart = 0
    /\ uOff = 0
    /\ ulog = <<>>
    /\ uRes = NoUpResp
    /\ uLoc = NoLocation

\* upload_blob(blob, container, layer, do_chunked): reset_basic_auth, then
\* put_upload or chunked_upload.
UploadBlobStart ==
    /\ upc = "idle"
    /\ \E s \in BlobSizes, c \in BOOLEAN :
        /\ uSize' = s
        /\ uChunked' = c
    /\ hdrAuth' = IF basicAuth # "none" THEN BasicHeader(basicAuth) ELSE "none"
    /\ upc' = "post"
    /\ uStart' = 0
    /\ uOff' = 0
    /\ ulog' = <<>>
    /\ uRes' = NoUpResp
    /\ uLoc' = NoLocation
    /\ UNCHANGED <<basicAuth, token, tlsVerify>>
    /\ UNCHANGED notUpCred

\* The session POST answered with a Location header: _get_location gives
\* the session URL.
UploadPostLocated ==
    /\ upc = "post"
    /\ \E st \in UpStatuses, loc \in Locations :
        /\ HasSession(GetLocation(loc))
        /\ uLoc' = loc
        /\ ulog' = Append(ulog, UpEntry("POST", 0, 0, 0, FALSE, st))
    /\ upc' = IF uChunked THEN "patch" ELSE "put"
    /\ UNCHANGED <<uSize, uChunked, uStart, uOff, uRes>>
    /\ UNCHANGED notUp

\* The session POST answered without a Location header ("raise
\* ValueError"), or do_request raised (status 0).
UploadPostFailed ==
    /\ upc = "post"
    /\ \E st \in UpStatuses \cup {0}, loc \in Locations :
        /\ st = 0 \/ ~HasSession(GetLocation(loc))
        /\ st = 0 => loc = ""
        /\ uLoc' = loc
        /\ ulog' = Append(ulog, UpEntry("POST", 0, 0, 0, FALSE, st))
    /\ upc' = "raised"
    /\ UNCHANGED <<uSize, uChunked, uStart, uOff, uRes>>
    /\ UNCHANGED notUp

\* put_upload: PUT of the whole blob to the session URL with the digest.
UploadPut ==
    /\ upc = "put"
    /\ \E st \in UpStatuses \cup {0} :
        /\ ulog' = Append(ulog, UpEntry("PUT", 0, uSize - 1, uSize, TRUE, st))
        /\ IF st = 0
           THEN upc' = "raised" /\ uRes' = uRes
           ELSE /\ upc' = "returned"
                /\ uRes' = UploadBlobResponse(st, IsBlankHash(uSize))
    /\ UNCHANGED <<uSize, uChunked, uStart, uOff, uLoc>>
    /\ UNCHANGED notUp

\* chunked_upload, one pass of the loop up to the send of the PATCH: the
\* chunk read, its Content-Range and Content-Length, start moved on.
UploadPatchSend ==
    /\ upc = "patch"
    /\ uOff < uSize
    /\ LET len == ReadChunk(uSize, uOff)
           end == ChunkEnd(uStart, len)
       IN /\ ulog' = Append(ulog, UpEntry("PATCH", uStart, end, len, FALSE, -1))
          /\ uStart' = NextStart(end)
          /\ uOff' = uOff + len
    /\ upc' = "patching"
    /\ UNCHANGED <<uSize, uChunked, uRes, uLoc>>
    /\ UNCHANGED notUp

\* The PATCH is answered (or do_request raises: status 0) and
\* _check_200_response inspects the answer.
UploadPatchAnswer ==
    /\ upc = "patching"
    /\ \E st \in UpStatuses \cup {0} :
        /\ ulog' = [ulog EXCEPT ![Len(ulog)].status = st]
        /\ upc' = IF st # 0 /\ Check200Ok(st) THEN "patch" ELSE "raised"
    /\ UNCHANGED <<uSize, uChunked, uStart, uOff, uRes, uLoc>>
    /\ UNCHANGED notUp

\* chunked_upload after the loop: the closing PUT with the digest.
UploadClose ==
    /\ upc = "patch"
    /\ uOff >= uSize
    /\ \E st \in UpStatuses \cup {0} :
        /\ ulog' = Append(ulog, UpEntry("PUT", 0, 0, 0, TRUE, st))
        /\ IF st = 0
           THEN upc' = "raised" /\ uRes' = uRes
           ELSE /\ upc' = "returned"
                /\ uRes' = UploadBlobResponse(st, IsBlankHash(uSize))
    /\ UNCHANGED <<uSize, uChunked, uStart, uOff, uLoc>>
    /\ UNCHANGED notUp

UpNext ==
    \/ UploadBlobStart
    \/ UploadPostLocated
    \/ UploadPostFailed
    \/ UploadPut
    \/ UploadPatchSend
    \/ UploadPatchAnswer
    \/ UploadClose

(***************************************************************************)
(* Registry.push and Registry.pull against one repository tag.             *)
(*                                                                         *)
(* A path is the sequence of its components.  The local file system is     *)
(* fixed; the files pushed are regular files.                              *)
(***************************************************************************)

\* The longest files list handed to push.
MaxFiles == 2

\* os.getcwd()
Cwd == <<"w">>

PathAX == <<"w", "a", "x">>

PathBX == <<"w", "b", "x">>

PathEmpty == <<"w", "y">>

PathOutside == <<"o", "z">>

PathMissing == <<"w", "gone">>

PathCfg == <<"w", "cfg">>

NoPath == <<>>

\* open(path, "rb").read() of the files that exist.
FileContent(p) ==
    CASE p = PathAX -> "A"
      [] p = PathBX -> "B"
      [] p = PathEmpty -> ""
      [] p = PathOutside -> "A"
      [] p = PathCfg -> "C"

\* os.path.exists
Exists(p) == p \in {PathAX, PathBX, PathEmpty, PathOutside, PathCfg}

PushPaths == {PathAX, PathBX, PathEmpty, PathOutside, PathMissing}

FileLists == UNION {[1..n -> PushPaths] : n \in 0..MaxFiles}

\* "sha256:" + get_file_hash(path)
Digest(content) == "sha256:" \o content

\* oras.defaults.blank_hash, the digest of the empty blob.
blank_hash == Digest("")

IsInfix(a, b) ==
    \E i \in 0..(Len(b) - Len(a)) : \A k \in 1..Len(a) : b[i + k] = a[k]

IsPrefix(a, b) == Len(a) <= Len(b) /\ \A k \in 1..Len(a) : b[k] = a[k]

\* _validate_path: "os.getcwd() in os.path.abspath(path)"
ValidatePath(p) == IsInfix(Cwd, p)

\* os.path.basename
Basename(p) == p[Len(p)]

\* oci.NewLayer plus the title annotation push gives the layer.
NewLayer(p) ==
    [digest |-> Digest(FileContent(p)), title |-> Basename(p),
     mediaType |-> "file"]

\* oci.ManifestConfig: the path of the config file, None when no path is
\* given or the path does not exist.
ManifestConfigFile(p) == IF p = NoPath \/ ~Exists(p) THEN NoPath ELSE p

NoManifest == [layers |-> <<>>, config |-> "none"]

\* A manifest pushed to the tag earlier; its layer has no title.
OldManifest ==
    [layers |-> <<[digest |-> Digest("A"), title |-> "", mediaType |-> "file"]>>,
     config |-> Digest("C")]

\* Answers of the registry to the session POST: a Location header, none, or
\* no answer at all (do_request raises).
PostAnswers == {"located", "unlocated", "raised"}

PostStatus(a) ==
    CASE a = "located" -> 202
      [] a = "unlocated" -> 404
      [] a = "raised" -> 0

\* Status of the answer to a PUT; 0 when do_request raises.
PutStatuses == {201, 400, 0}

\* The registry keeps what it answers 201 for.
RegStores(status) == status = 201

\* A response is told apart by the request of the log it answers; the
\* Response upload_blob makes up answers none (req = 0).
NoPushResp == [status |-> 0, req |-> 0]

PushEntry(m, kind, idx, digest, status) ==
    [m |-> m, kind |-> kind, idx |-> idx, digest |-> digest, status |-> status]

NoCur == [kind |-> "none", idx |-> 0, digest |-> "none"]

\* pull's outdir
OutDir == <<"out">>

\* sanitize_path(outdir, os.path.join(outdir, filename))
SanitizeOk(dir, p) == IsPrefix(dir, p)

PushIdle ==
    /\ regBlobs = {}
    /\ regManifest = NoManifest
    /\ tagBefore = NoManifest
    /\ ppc = "off"
    /\ pFiles = <<>>
    /\ pValidate = TRUE
    /\ pConfig = NoPath
    /\ pIdx = 0
    /\ pLayers = <<>>
    /\ pCur = NoCur
    /\ pResp = NoPushResp
    /\ plog = <<>>
    /\ pRes = NoPushResp
    /\ pErr = "none"
    /\ lpc = "off"
    /\ lOverwrite = TRUE
    /\ lManifest = NoManifest
    /\ lIdx = 0
    /\ lFiles = <<>>
    /\ lOut = <<>>
    /\ lOut0 = <<>>
    /\ llog = <<>>
    /\ lErr = "none"

\* The tag is either unknown to the registry or holds an older manifest.
PushInit ==
    /\ \/ regBlobs = {} /\ regManifest = NoManifest
       \/ regBlobs = {"A", "C"} /\ regManifest = OldManifest
    /\ tagBefore = regManifest
    /\ ppc = "idle"
    /\ pFiles = <<>>
    /\ pValidate = TRUE
    /\ pConfig = NoPath
    /\ pIdx = 0
    /\ pLayers = <<>>
    /\ pCur = NoCur
    /\ pResp = NoPushResp
    /\ plog = <<>>
    /\ pRes = NoPushResp
    /\ pErr = "none"
    /\ lpc = "idle"
    /\ lOverwrite = TRUE
    /\ lManifest = NoManifest
    /\ lIdx = 0
    /\ lFiles = <<>>
    /\ lOut = <<>>
    /\ lOut0 = <<>>
    /\ llog = <<>>
    /\ lErr = "none"

\* push(target, files, disable_path_validation, manifest_config) is called.
PushStart ==
    /\ ppc = "idle"
    /\ \E fs \in FileLists, v \in BOOLEAN, c \in {NoPath, PathCfg, PathMissing} :
        /\ pFiles' = fs
        /\ pValidate' = v
        /\ pConfig' = c
    /\ pIdx' = 1
    /\ ppc' = "file"
    /\ tagBefore' = regManifest
    /\ UNCHANGED <<regBlobs, regManifest>>
    /\ UNCHANGED <<pLayers, pCur, pResp, plog, pRes, pErr>>
    /\ UNCHANGED credVars
    /\ UNCHANGED notPushCred

\* One pass of the loop over files up to upload_blob's reset_basic_auth:
\* the existence check, the path validation, the new layer appended to the
\* manifest.
PushFile ==
    /\ ppc = "file"
    /\ pIdx <= Len(pFiles)
    /\ LET blob == pFiles[pIdx] IN
        IF ~Exists(blob)
        THEN /\ ppc' = "raised"
             /\ pErr' = "FileNotFoundError"
             /\ UNCHANGED <<pLayers, pCur, hdrAuth>>
        ELSE IF pValidate /\ ~ValidatePath(blob)
        THEN /\ ppc' = "raised"
             /\ pErr' = "ValueError"
             /\ UNCHANGED <<pLayers, pCur, hdrAuth>>
        ELSE /\ pLayers' = Append(pLayers, NewLayer(blob))
             /\ pCur' = [kind |-> "layer", idx |-> pIdx,
                         digest |-> NewLayer(blob).digest]
             /\ hdrAuth' = IF basicAuth # "none"
                           THEN BasicHeader(basicAuth) ELSE "none"
             /\ ppc' = "post"
             /\ pErr' = pErr
    /\ UNCHANGED <<pFiles, pValidate, pConfig, pIdx, pResp, plog, pRes>>
    /\ UNCHANGED <<basicAuth, token, tlsVerify>>
    /\ UNCHANGED regVars
    /\ UNCHANGED notPushCred

\* After the loop: the manifest config.  With no config file,
\* upload_blob(None, ...) fails in os.path.abspath.
PushConfig ==
    /\ ppc = "file"
    /\ pIdx > Len(pFiles)
    /\ LET config_file == ManifestConfigFile(pConfig) IN
        IF config_file = NoPath
        THEN /\ ppc' = "raised"
             /\ pErr' = "TypeError"
             /\ UNCHANGED <<pCur, hdrAuth>>
        ELSE /\ pCur' = [kind |-> "config", idx |-> Len(pFiles) + 1,
                         digest |-> Digest(FileContent(config_file))]
             /\ hdrAuth' = IF basicAuth # "none"
                           THEN BasicHeader(basicAuth) ELSE "none"
             /\ ppc' = "post"
             /\ pErr' = pErr
    /\ UNCHANGED <<pFiles, pValidate, pConfig, pIdx, pLayers, pResp, plog, pRes>>
    /\ UNCHANGED <<basicAuth, token, tlsVerify>>
    /\ UNCHANGED regVars
    /\ UNCHANGED notPushCred

\* put_upload: the session POST and the look for its Location header.
PushPost ==
    /\ ppc = "post"
    /\ \E a \in PostAnswers :
        /\ plog' = Append(plog, PushEntry("POST", pCur.kind, pCur.idx,
                                          pCur.digest, PostStatus(a)))
        /\ IF a = "located"
           THEN ppc' = "put" /\ pErr' = pErr
           ELSE /\ ppc' = "raised"
                /\ pErr' = IF a = "raised" THEN "RequestException" ELSE "ValueError"
    /\ UNCHANGED <<pFiles, pValidate, pConfig, pIdx, pLayers, pCur, pResp, pRes>>
    /\ UNCHANGED regVars
    /\ UNCHANGED notPush

\* put_upload's PUT of the blob, what upload_blob makes of the answer, and
\* push's _check_200_response of that.
PushPut ==
    /\ ppc = "put"
    /\ \E st \in PutStatuses :
        /\ plog' = Append(plog, PushEntry("PUT", pCur.kind, pCur.idx,
                                          pCur.digest, st))
        /\ regBlobs' = IF RegStores(st)
                       THEN regBlobs \cup {FileContent(
                                IF pCur.kind = "layer" THEN pFiles[pCur.idx]
                                ELSE ManifestConfigFile(pConfig))}
                       ELSE regBlobs
        /\ IF st = 0
           THEN /\ ppc' = "raised"
                /\ pErr' = "RequestException"
                /\ UNCHANGED <<pResp, pIdx>>
           ELSE LET r == UploadBlobResponse(st, pCur.digest = blank_hash) IN
                /\ pResp' = [status |-> r.status,
                             req |-> IF r.synth THEN 0 ELSE Len(plog) + 1]
                /\ IF ~Check200Ok(r.status)
                   THEN ppc' = "raised" /\ pErr' = "ValueError" /\ pIdx' = pIdx
                   ELSE /\ pErr' = pErr
                        /\ IF pCur.kind = "layer"
                           THEN ppc' = "file" /\ pIdx' = pIdx + 1
                           ELSE ppc' = "manifest" /\ pIdx' = pIdx
    /\ UNCHANGED <<pFiles, pValidate, pConfig, pLayers, pCur, pRes>>
    /\ UNCHANGED <<regManifest, tagBefore>>
    /\ UNCHANGED notPush

\* upload_manifest, its _check_200_response, and "return response".
PushManifest ==
    /\ ppc = "manifest"
    /\ hdrAuth' = IF basicAuth # "none" THEN BasicHeader(basicAuth) ELSE "none"
    /\ \E st \in PutStatuses :
        /\ plog' = Append(plog, PushEntry("PUT", "manifest", 0, "none", st))
        /\ regManifest' = IF RegStores(st)
                          THEN [layers |-> pLayers, config |-> pCur.digest]
                          ELSE regManifest
        /\ IF st = 0
           THEN ppc' = "raised" /\ pErr' = "RequestException" /\ pRes' = pRes
           ELSE IF ~Check200Ok(st)
           THEN ppc' = "raised" /\ pErr' = "ValueError" /\ pRes' = pRes
           ELSE ppc' = "returned" /\ pErr' = pErr /\ pRes' = pResp
    /\ UNCHANGED <<pFiles, pValidate, pConfig, pIdx, pLayers, pCur, pResp>>
    /\ UNCHANGED <<regBlobs, tagBefore>>
    /\ UNCHANGED <<basicAuth, token, tlsVerify>>
    /\ UNCHANGED notPushCred

(***************************************************************************)
(* extract_targz and is_within_directory.                                  *)
(*                                                                         *)
(* A path is absolute and is the sequence of its components; <<>> is the   *)
(* root.  The archive is extracted into pull's outdir.                     *)
(***************************************************************************)

\* The longest list of members of an archive.
MaxMembers == 3

\* The characters of a path component.
CompChars(c) ==
    CASE c = "out" -> <<"o", "u", "t">>
      [] c = "outx" -> <<"o", "u", "t", "x">>
      [] c = "evil" -> <<"e", "v", "i", "l">>
      [] c = "link" -> <<"l", "i", "n", "k">>
      [] c = "tmp" -> <<"t", "m", "p">>
      [] OTHER -> <<c>>

\* The path as a string: "/" before every component.
RECURSIVE PathStr(_)
PathStr(p) ==
    IF p = <<>> THEN <<>>
    ELSE <<"/">> \o CompChars(Head(p)) \o PathStr(Tail(p))

\* os.path.normpath of an absolute path: "." dropped, ".." takes the
\* component before it away, the root is its own parent.
RECURSIVE Norm(_, _)
Norm(acc, rest) ==
    IF rest = <<>> THEN acc
    ELSE IF Head(rest) = "." THEN Norm(acc, Tail(rest))
    ELSE IF Head(rest) = ".."
    THEN Norm(IF acc = <<>> THEN acc ELSE SubSeq(acc, 1, Len(acc) - 1), Tail(rest))
    ELSE Norm(Append(acc, Head(rest)), Tail(rest))

\* os.path.abspath of an absolute path, as a string; the root is "/".
AbsPathStr(p) ==
    LET n == Norm(<<>>, p) IN IF n = <<>> THEN <<"/">> ELSE PathStr(n)

\* os.path.commonprefix([a, b]): character by character.
RECURSIVE CommonPrefix(_, _)
CommonPrefix(a, b) ==
    IF a = <<>> \/ b = <<>> \/ Head(a) # Head(b) THEN <<>>
    ELSE <<Head(a)>> \o CommonPrefix(Tail(a), Tail(b))

\* is_within_directory
IsWithinDirectory(directory, target) ==
    CommonPrefix(AbsPathStr(directory), AbsPathStr(target)) = AbsPathStr(directory)

\* Names of archive members.
MemberNames ==
    {<<"x">>, <<"d", "f">>, <<"..", "evil">>, <<"..", "outx", "e">>,
     <<"..", "out", "y">>}

MemberLists == UNION {[1..n -> MemberNames] : n \in 0..MaxMembers}

\* The members that extract_targz's loop rejects.
Rejected(dest, members) ==
    {i \in DOMAIN members : ~IsWithinDirectory(dest, dest \o members[i])}

\* tar.extractall(outdir): every member lands on outdir joined with its
\* name.
Extracted(dest, members) ==
    {Norm(<<>>, dest \o members[i]) : i \in DOMAIN members}

TarIdle ==
    /\ tpc = "off"
    /\ tMembers = <<>>
    /\ tIdx = 0
    /\ tFs = {}

TarInit ==
    /\ tpc = "check"
    /\ tMembers \in MemberLists
    /\ tIdx = 1
    /\ tFs = {}

\* One pass of the loop over tar.getmembers().
ExtractCheckMember ==
    /\ tpc = "check"
    /\ tIdx <= Len(tMembers)
    /\ IF tIdx \in Rejected(OutDir, tMembers)
       THEN tpc' = "raised" /\ tIdx' = tIdx
       ELSE tpc' = tpc /\ tIdx' = tIdx + 1
    /\ UNCHANGED <<tMembers, tFs>>
    /\ UNCHANGED notTar

\* tar.extractall after the loop.
ExtractAll ==
    /\ tpc = "check"
    /\ tIdx > Len(tMembers)
    /\ tFs' = Extracted(OutDir, tMembers)
    /\ tpc' = "extracted"
    /\ UNCHANGED <<tMembers, tIdx>>
    /\ UNCHANGED notTar

TarNext ==
    \/ ExtractCheckMember
    \/ ExtractAll

(***************************************************************************)
(* Registry.pull.                                                          *)
(*                                                                         *)
(* The file system maps the absolute path of a file to its content; a      *)
(* directory exists when a file lies below it.                             *)
(***************************************************************************)

\* The longest list of layers of a manifest the registry holds for a pull.
MaxLayers == 2

\* The content that marks a symbolic link; every link points at LinkTarget.
LinkMark == "->"

LinkTarget == <<"o">>

\* The directory of get_tmpfile.
TmpDir == <<"tmp">>

\* The file mkstemp makes for the layer at index i.
TmpFile(i) ==
    TmpDir \o <<CASE i = 1 -> "t1" [] i = 2 -> "t2" [] i = 3 -> "t3" [] OTHER -> "t4">>

\* The components of a file name.
SplitPath(name) ==
    CASE name = "../evil" -> <<"..", "evil">>
      [] name = "link/x" -> <<"link", "x">>
      [] OTHER -> <<name>>

\* pathlib.Path.resolve: ".." and "." followed, symbolic links replaced by
\* what they point at.
RECURSIVE Resolve(_, _, _)
Resolve(acc, rest, fs) ==
    IF rest = <<>> THEN acc
    ELSE IF Head(rest) = "." THEN Resolve(acc, Tail(rest), fs)
    ELSE IF Head(rest) = ".."
    THEN Resolve(IF acc = <<>> THEN acc ELSE SubSeq(acc, 1, Len(acc) - 1),
                 Tail(rest), fs)
    ELSE LET q == Append(acc, Head(rest)) IN
         IF q \in DOMAIN fs /\ fs[q] = LinkMark
         THEN Resolve(LinkTarget, Tail(rest), fs)
         ELSE Resolve(q, Tail(rest), fs)

\* os.path.isdir: outdir and what is above it, and every directory a file
\* lies below.
IsDir(p, fs) ==
    \/ IsPrefix(p, OutDir)
    \/ \E q \in DOMAIN fs : q # p /\ IsPrefix(p, q)

\* os.path.exists
PathExists(p, fs) == p \in DOMAIN fs \/ IsDir(p, fs)

\* os.path.dirname
Dirname(p) == SubSeq(p, 1, Len(p) - 1)

\* Every layer is fetched anew.
SkipLayer_Never(overwrite, exists) == FALSE

\* "if not overwrite and os.path.exists(outfile): ... continue"
SkipLayer(overwrite, exists) == ~overwrite /\ exists

\* The members of the archives among the blobs.
TarMembers(content) ==
    CASE content = "T1" -> <<<<"d", "f">>>>
      [] content = "T2" -> <<<<"evil">>>>
      [] content = "T3" -> <<<<"..", "outx", "e">>>>
      [] OTHER -> <<>>

\* fs with content written to every path of paths.
WriteAll(fs, paths, content) ==
    [q \in DOMAIN fs \cup paths |-> IF q \in paths THEN content ELSE fs[q]]

\* The layers of the manifests pulled: a file, a file whose title leaves
\* outdir, one whose title goes through a link, a directory, a directory
\* titled ".", a directory whose archive leaves outdir, a file without
\* title.
PullLayers ==
    {[digest |-> Digest("A"), title |-> "x", mediaType |-> "file"],
     [digest |-> Digest("B"), title |-> "../evil", mediaType |-> "file"],
     [digest |-> Digest("A"), title |-> "link/x", mediaType |-> "file"],
     [digest |-> Digest("T1"), title |-> "d", mediaType |-> "dir"],
     [digest |-> Digest("T2"), title |-> ".", mediaType |-> "dir"],
     [digest |-> Digest("T3"), title |-> "d", mediaType |-> "dir"],
     [digest |-> Digest("A"), title |-> "", mediaType |-> "file"]}

PullManifests ==
    {[layers |-> ls, config |-> Digest("C")] :
        ls \in UNION {[1..n -> PullLayers] : n \in 0..MaxLayers}}

\* What outdir holds before a pull: nothing, a file x, a link to a
\* directory outside, a directory d with a file.
PullFileSystems ==
    {<<>>,
     <<"out", "x">> :> "old",
     <<"out", "link">> :> LinkMark,
     <<"out", "d", "f">> :> "old"}

PullEntry(idx, digest, status) ==
    [idx |-> idx, digest |-> digest, status |-> status]

\* A pull of a manifest the registry holds, with all its blobs, into an
\* outdir that may hold files; no push is under way.
PullInit ==
    /\ regManifest \in PullManifests
    /\ regBlobs = {"A", "B", "C", "T1", "T2", "T3"}
    /\ tagBefore = regManifest
    /\ ppc = "off"
    /\ pFiles = <<>>
    /\ pValidate = TRUE
    /\ pConfig = NoPath
    /\ pIdx = 0
    /\ pLayers = <<>>
    /\ pCur = NoCur
    /\ pResp = NoPushResp
    /\ plog = <<>>
    /\ pRes = NoPushResp
    /\ pErr = "none"
    /\ lpc = "idle"
    /\ lOverwrite = TRUE
    /\ lManifest = NoManifest
    /\ lIdx = 0
    /\ lFiles = <<>>
    /\ lOut \in PullFileSystems
    /\ lOut0 = lOut
    /\ llog = <<>>
    /\ lErr = "none"

\* pull(target, outdir, overwrite), not during a push: get_manifest and
\* its _check_200_response.
PullStart ==
    /\ lpc = "idle"
    /\ ppc \in {"off", "returned", "raised"}
    /\ \E o \in BOOLEAN : lOverwrite' = o
    /\ \E answered \in BOOLEAN :
        IF answered /\ regManifest # NoManifest
        THEN /\ lManifest' = regManifest
             /\ lIdx' = 1
             /\ lpc' = "layers"
             /\ lErr' = lErr
        ELSE /\ lpc' = "raised"
             /\ lErr' = "manifest"
             /\ UNCHANGED <<lManifest, lIdx>>
    /\ UNCHANGED <<lFiles, lOut, lOut0, llog>>
    /\ UNCHANGED notPull

\* One pass of the loop over the layers of the manifest: the file name,
\* sanitize_path, the overwrite check, download_blob (and extract_targz
\* for a directory), files.append.
PullLayer ==
    /\ lpc = "layers"
    /\ lIdx <= Len(lManifest.layers)
    /\ LET layer == lManifest.layers[lIdx]
           filename == IF layer.title = "" THEN layer.digest ELSE layer.title
           outfile == Resolve(<<>>, OutDir \o SplitPath(filename), lOut)
           stored == {c \in regBlobs : Digest(c) = layer.digest}
           content == CHOOSE c \in stored : TRUE
           targz == TmpFile(lIdx)
           dest == Dirname(outfile)
       IN
        IF ~SanitizeOk(Resolve(<<>>, OutDir, lOut), outfile)
        THEN /\ lpc' = "raised"
             /\ lErr' = "traversal"
             /\ UNCHANGED <<lIdx, lFiles, lOut, llog>>
        ELSE IF SkipLayer(lOverwrite, PathExists(outfile, lOut))
        THEN lIdx' = lIdx + 1 /\ UNCHANGED <<lpc, lFiles, lOut, llog, lErr>>
        ELSE \E answered \in BOOLEAN :
            LET served == answered /\ stored # {} IN
            /\ llog' = Append(llog, PullEntry(lIdx, layer.digest,
                                              IF served THEN 200 ELSE 404))
            /\ IF layer.mediaType = "dir"
               THEN IF ~served
                    THEN /\ lOut' = WriteAll(lOut, {targz}, "")
                         /\ lpc' = "raised"
                         /\ lErr' = "download"
                         /\ UNCHANGED <<lIdx, lFiles>>
                    ELSE IF Rejected(dest, TarMembers(content)) # {}
                    THEN /\ lOut' = WriteAll(lOut, {targz}, content)
                         /\ lpc' = "raised"
                         /\ lErr' = "traversal"
                         /\ UNCHANGED <<lIdx, lFiles>>
                    ELSE /\ lOut' = WriteAll(WriteAll(lOut, {targz}, content),
                                             Extracted(dest, TarMembers(content)),
                                             "member")
                         /\ lFiles' = Append(lFiles, outfile)
                         /\ lIdx' = lIdx + 1
                         /\ UNCHANGED <<lpc, lErr>>
               ELSE IF served /\ ~IsDir(outfile, lOut)
                    THEN /\ lOut' = WriteAll(lOut, {outfile}, content)
                         /\ lFiles' = Append(lFiles, outfile)
                         /\ lIdx' = lIdx + 1
                         /\ UNCHANGED <<lpc, lErr>>
                    ELSE IF layer.digest = blank_hash
                    THEN /\ lFiles' = Append(lFiles, outfile)
                         /\ lIdx' = lIdx + 1
                         /\ UNCHANGED <<lpc, lOut, lErr>>
                    ELSE /\ lpc' = "raised"
                         /\ lErr' = "download"
                         /\ UNCHANGED <<lIdx, lFiles, lOut>>
    /\ UNCHANGED <<lOverwrite, lManifest, lOut0>>
    /\ UNCHANGED notPull

\* "return files"
PullReturn ==
    /\ lpc = "layers"
    /\ lIdx > Len(lManifest.layers)
    /\ lpc' = "returned"
    /\ UNCHANGED <<lOverwrite, lManifest, lIdx, lFiles, lOut, lOut0, llog, lErr>>
    /\ UNCHANGED notPull

PushNext ==
    \/ PushStart
    \/ PushFile
    \/ PushConfig
    \/ PushPost
    \/ PushPut
    \/ PushManifest
    \/ PullStart
    \/ PullLayer
    \/ PullReturn

PullNext ==
    \/ PullStart
    \/ PullLayer
    \/ PullReturn

(***************************************************************************)
(* Container: the parse of a reference, its uri and its manifest url.      *)
(*                                                                         *)
(* A string is the sequence of its characters; <<>> stands for None and    *)
(* for the empty string, which the code never tells apart ("x or y").      *)
(***************************************************************************)

\* The longest name handed to Container().
MaxNameLen == 5

\* The characters names are made of: a letter and the four the expression
\* docker_regex gives a meaning to.
Chars == {"a", ".", "/", ":", "@"}

Names == UNION {[1..n -> Chars] : n \in 0..MaxNameLen}

\* oras.defaults.registry.index_name
index_name == <<"d", "o", "c", "k", "e", "r", ".", "i", "o">>

\* oras.defaults.default_tag
default_tag == <<"l", "a", "t", "e", "s", "t">>

\* A registry handed to Container() that is a bare host name.
CustomRegistry == <<"h">>

NoMatch ==
    [ok |-> FALSE, registry |-> <<>>, namespace |-> <<>>,
     repository |-> <<>>, tag |-> <<>>, digest |-> <<>>]

\* x or y
Or(x, y) == IF x # <<>> THEN x ELSE y

\* The first position from i on that holds a character of bad, Len(n)+1
\* if there is none: where a greedy "[^bad]*" begun at i stops.
RECURSIVE Span(_, _, _)
Span(n, i, bad) ==
    IF i > Len(n) \/ n[i] \in bad THEN i ELSE Span(n, i + 1, bad)

\* "(?:(?P<registry>[^/@]+[.:][^/@]*)/)?" tried at s: the position of the
\* "/" that closes the group, 0 when the group does not match.
RegistryEnd(n, s) ==
    LET e == Span(n, s, {"/", "@"}) IN
    IF /\ e <= Len(n)
       /\ n[e] = "/"
       /\ \E k \in (s + 1)..(e - 1) : n[k] \in {".", ":"}
    THEN e
    ELSE 0

\* "(?P<namespace>(?:[^:@/]+/)+)?" tried at p: the position after the
\* longest run of segments, p itself when there is none.
RECURSIVE NamespaceEnd(_, _)
NamespaceEnd(n, p) ==
    LET q == Span(n, p, {":", "@", "/"}) IN
    IF q > p /\ q <= Len(n) /\ n[q] = "/"
    THEN NamespaceEnd(n, q + 1)
    ELSE p

\* namespace, repository, tag and digest matched from p to the end of n.
MatchTail(n, p) ==
    LET r == NamespaceEnd(n, p)
        e == Span(n, r, {":", "@", "/"})
        hasTag == e <= Len(n) /\ n[e] = ":"
        t == IF hasTag THEN Span(n, e + 1, {":", "@"}) ELSE e
        hasDigest == t <= Len(n) /\ n[t] = "@"
    IN  IF \/ e = r
           \/ hasTag /\ t = e + 1
           \/ hasDigest /\ t = Len(n)
           \/ ~hasDigest /\ t <= Len(n)
        THEN NoMatch
        ELSE [ok |-> TRUE,
              registry |-> <<>>,
              namespace |-> SubSeq(n, p, r - 1),
              repository |-> SubSeq(n, r, e - 1),
              tag |-> IF hasTag THEN SubSeq(n, e + 1, t - 1) ELSE <<>>,
              digest |-> IF hasDigest THEN SubSeq(n, t + 1, Len(n)) ELSE <<>>]

\* docker_regex matched at s: with the registry group if the rest matches
\* then, without it otherwise.
MatchAt(n, s) ==
    LET e == RegistryEnd(n, s)
        with == IF e # 0 THEN MatchTail(n, e + 1) ELSE NoMatch
    IN  IF with.ok
        THEN [with EXCEPT !.registry = SubSeq(n, s, e - 1)]
        ELSE MatchTail(n, s)

\* re.search(docker_regex, name): the match at the leftmost position that
\* has one.
Search(n) ==
    LET S == {s \in 1..Len(n) : MatchAt(n, s).ok} IN
    IF S = {} THEN NoMatch
    ELSE MatchAt(n, CHOOSE s \in S : \A u \in S : s <= u)

\* str.strip("/")
RECURSIVE StripSlash(_)
StripSlash(x) ==
    IF x = <<>> THEN x
    ELSE IF Head(x) = "/" THEN StripSlash(Tail(x))
    ELSE IF x[Len(x)] = "/" THEN StripSlash(SubSeq(x, 1, Len(x) - 1))
    ELSE x

\* Container.__init__ and Container.parse; ok is FALSE when parse raises.
NewContainer(name, registry) ==
    LET items == Search(name) IN
    IF ~items.ok THEN NoMatch
    ELSE [ok |-> TRUE,
          registry |-> Or(items.registry, Or(registry, index_name)),
          namespace |-> StripSlash(items.namespace),
          repository |-> items.repository,
          tag |-> Or(items.tag, default_tag),
          digest |-> items.digest]

\* Container.uri
Uri(c) ==
    LET path == IF c.namespace # <<>>
                THEN c.namespace \o <<"/">> \o c.repository
                ELSE c.repository
        full == IF c.registry # <<>> THEN c.registry \o <<"/">> \o path ELSE path
    IN  IF c.digest # <<>> THEN full \o <<"@">> \o c.digest
        ELSE IF c.tag # <<>> THEN full \o <<":">> \o c.tag
        ELSE full

\* Container.api_prefix
ApiPrefix(c) ==
    IF c.namespace # <<>>
    THEN c.namespace \o <<"/">> \o c.repository
    ELSE c.repository

\* Container.manifest_url(tag): the url keeps its three parts apart.
ManifestUrl(c, tag) ==
    [registry |-> c.registry, prefix |-> ApiPrefix(c), ref |-> Or(tag, c.tag)]

NoUrl == [registry |-> <<>>, prefix |-> <<>>, ref |-> <<>>]

ContIdle ==
    /\ cpc = "off"
    /\ cName = <<>>
    /\ cRegistry = <<>>
    /\ cont = NoMatch
    /\ cUri = <<>>
    /\ cont2 = NoMatch
    /\ cUrl = NoUrl

ContInit ==
    /\ cpc = "new"
    /\ cName \in Names
    /\ cRegistry \in {<<>>, CustomRegistry}
    /\ cont = NoMatch
    /\ cUri = <<>>
    /\ cont2 = NoMatch
    /\ cUrl = NoUrl

\* Container(name, registry)
ContainerNew ==
    /\ cpc = "new"
    /\ cont' = NewContainer(cName, cRegistry)
    /\ cpc' = IF cont'.ok THEN "parsed" ELSE "raised"
    /\ UNCHANGED <<cName, cRegistry, cUri, cont2, cUrl>>
    /\ UNCHANGED notCont

\* get_manifest: container.manifest_url()
ContainerManifestUrl ==
    /\ cpc = "parsed"
    /\ cUrl' = ManifestUrl(cont, <<>>)
    /\ cpc' = "url"
    /\ UNCHANGED <<cName, cRegistry, cont, cUri, cont2>>
    /\ UNCHANGED notCont

\* container.uri
ContainerUri ==
    /\ cpc = "parsed"
    /\ cUri' = Uri(cont)
    /\ cpc' = "emitted"
    /\ UNCHANGED <<cName, cRegistry, cont, cont2, cUrl>>
    /\ UNCHANGED notCont

\* Container(container.uri, registry)
ContainerReparse ==
    /\ cpc = "emitted"
    /\ cont2' = NewContainer(cUri, cRegistry)
    /\ cpc' = "reparsed"
    /\ UNCHANGED <<cName, cRegistry, cont, cUri, cUrl>>
    /\ UNCHANGED notCont

ContNext ==
    \/ ContainerNew
    \/ ContainerManifestUrl
    \/ ContainerUri
    \/ ContainerReparse

(***************************************************************************)
(* Registry.get_tags and _do_paginated_request.                            *)
(*                                                                         *)
(* The tags of the repository are 1, 2, ... in the order the registry      *)
(* lists them; it serves them in pages, each page but the last with a      *)
(* Link header whose rel="next" url leads to the page after it.            *)
(***************************************************************************)

\* The most pages the registry serves the tags in.
MaxPages == 3

\* The most tags on a page.
MaxPageLen == 2

\* The largest N handed to get_tags.
MaxN == 3

PageLists == UNION {[1..n -> 0..MaxPageLen] : n \in 1..MaxPages}

\* The number of tags on the first j pages.
RECURSIVE TagsUpTo(_, _)
TagsUpTo(pages, j) ==
    IF j = 0 THEN 0 ELSE TagsUpTo(pages, j - 1) + pages[j]

\* json.get("tags") of the response for page j.
PageTags(pages, j) ==
    [i \in 1..pages[j] |-> TagsUpTo(pages, j - 1) + i]

\* response.links.get("next", {}).get("url"): the page after j, 0 when
\* the response has no such link.
NextLink(pages, j) == IF j < Len(pages) THEN j + 1 ELSE 0

\* The first page ends the listing.
WantMore_Never(newLen, all, len, n) == FALSE

\* extract_tags: "return len(new_tags) and (retrieve_all or len(tags) < N)"
WantMore(newLen, all, len, n) == newLen # 0 /\ (all \/ len < n)

\* "if N is not None and len(tags) > N: tags = tags[:N]"
Truncate(tags, all, n) ==
    IF ~all /\ Len(tags) > n THEN SubSeq(tags, 1, n) ELSE tags

TagsIdle ==
    /\ gpc = "off"
    /\ gPages = <<0>>
    /\ gAll = TRUE
    /\ gN = 0
    /\ gPage = 0
    /\ gTags = <<>>
    /\ gReqs = 0
    /\ gRes = <<>>

TagsInit ==
    /\ gpc = "idle"
    /\ gPages \in PageLists
    /\ gAll = TRUE
    /\ gN = 0
    /\ gPage = 0
    /\ gTags = <<>>
    /\ gReqs = 0
    /\ gRes = <<>>

\* get_tags(container, N): the tags url, the empty list.
GetTagsStart ==
    /\ gpc = "idle"
    /\ \/ gAll' = TRUE /\ gN' = 0
       \/ gAll' = FALSE /\ gN' \in 0..MaxN
    /\ gPage' = 1
    /\ gpc' = "page"
    /\ UNCHANGED <<gPages, gTags, gReqs, gRes>>
    /\ UNCHANGED notTags

\* One pass of the loop of _do_paginated_request: the GET, its
\* _check_200_response, extract_tags, the next link.
GetTagsPage ==
    /\ gpc = "page"
    /\ gReqs' = gReqs + 1
    /\ \E ok \in BOOLEAN :
        IF ~ok
        THEN gpc' = "raised" /\ UNCHANGED <<gTags, gPage>>
        ELSE LET new_tags == PageTags(gPages, gPage)
                 link == NextLink(gPages, gPage)
             IN /\ gTags' = gTags \o new_tags
                /\ IF WantMore(Len(new_tags), gAll, Len(gTags'), gN) /\ link # 0
                   THEN gpc' = "page" /\ gPage' = link
                   ELSE gpc' = "done" /\ gPage' = gPage
    /\ UNCHANGED <<gPages, gAll, gN, gRes>>
    /\ UNCHANGED notTags

\* After the loop: the list cut to N, returned.
GetTagsReturn ==
    /\ gpc = "done"
    /\ gRes' = Truncate(gTags, gAll, gN)
    /\ gpc' = "returned"
    /\ UNCHANGED <<gPages, gAll, gN, gPage, gTags, gReqs>>
    /\ UNCHANGED notTags

TagsNext ==
    \/ GetTagsStart
    \/ GetTagsPage
    \/ GetTagsReturn

(***************************************************************************)
(* Registry.delete_tag.                                                    *)
(*                                                                         *)
(* do_request stands for the response it returns in the end, whatever      *)
(* authentication it went through to get it.                               *)
(***************************************************************************)

\* The containers whose tags are deleted.
DelNames == {<<"a">>, <<"a", "/", "a">>, <<"a", ".", "/", "a">>}

\* The tags asked to be deleted; the empty one makes manifest_url fall
\* back to the tag of the container.
DelTags == {<<>>, <<"v">>, <<"w">>}

\* The statuses a HEAD on a manifest is answered with.
HeadStatuses == {200, 401, 404, 500}

\* The Docker-Content-Digest header of a response, <<>> when it has none.
HeadDigests == {<<>>, <<"m", "1">>, <<"m", "2">>}

\* The statuses a DELETE on a manifest is answered with.
DeleteStatuses == {200, 202, 404, 405}

DelEntry(m, url, status) == [m |-> m, url |-> url, status |-> status]

\* "if response.status_code == 404" ... "if not digest"
HeadOutcome(status, digest) ==
    IF status = 404 THEN "false"
    ELSE IF digest = <<>> THEN "raise"
    ELSE "delete"

\* Every answer to the DELETE counts as success.
DeleteOk_Always(status) == TRUE

\* "if response.status_code != 202: raise RuntimeError"
DeleteOk(status) == status = 202

DelIdle ==
    /\ kpc = "off"
    /\ kName = <<>>
    /\ kTag = <<>>
    /\ kDigest = <<>>
    /\ klog = <<>>
    /\ kRes = "none"

DelInit ==
    /\ kpc = "idle"
    /\ kName \in DelNames
    /\ kTag \in DelTags
    /\ kDigest = <<>>
    /\ klog = <<>>
    /\ kRes = "none"

\* The HEAD on manifest_url(tag) and what delete_tag makes of its response.
DeleteTagHead ==
    /\ kpc = "idle"
    /\ \E status \in HeadStatuses, digest \in HeadDigests :
        /\ klog' = Append(klog,
               DelEntry("HEAD", ManifestUrl(NewContainer(kName, <<>>), kTag), status))
        /\ kDigest' = digest
        /\ LET out == HeadOutcome(status, digest) IN
           /\ kpc' = CASE out = "false" -> "returned"
                       [] out = "raise" -> "raised"
                       [] OTHER -> "delete"
           /\ kRes' = IF out = "false" THEN "False" ELSE kRes
    /\ UNCHANGED <<kName, kTag>>
    /\ UNCHANGED notDel

\* The DELETE on manifest_url(digest) and the check of its status.
DeleteTagDelete ==
    /\ kpc = "delete"
    /\ \E status \in DeleteStatuses :
        /\ klog' = Append(klog,
               DelEntry("DELETE", ManifestUrl(NewContainer(kName, <<>>), kDigest), status))
        /\ IF DeleteOk(status)
           THEN kpc' = "returned" /\ kRes' = "True"
           ELSE kpc' = "raised" /\ kRes' = kRes
    /\ UNCHANGED <<kName, kTag, kDigest>>
    /\ UNCHANGED notDel

DelNext ==
    \/ DeleteTagHead
    \/ DeleteTagDelete

(***************************************************************************)
(* Layout.get_ordered_blobs and Layout._process_manifest.                  *)
(*                                                                         *)
(* Digests are 1, 2, ...; a blob refers only to digests smaller than its   *)
(* own, as content addressing rules out a cycle.  A blob file is named by  *)
(* its digest and holds bytes; the field id of the bytes is what they hash *)
(* to.                                                                     *)
(***************************************************************************)

\* The digests of the layout.
MaxBlobs == 4

\* The most sub-manifests of an index.
MaxSubs == 2

Digests == 1..MaxBlobs

\* No blob file under the digest.
NoBlob == [id |-> 0, kind |-> "missing", layers |-> <<>>, config |-> 0, manifests |-> <<>>]

\* Bytes that are no manifest: not JSON, or JSON of another mediaType.
DataBlob(d) ==
    [id |-> d, kind |-> "data", layers |-> <<>>, config |-> 0, manifests |-> <<>>]

\* An image manifest; config 0 is a manifest without a "config".
ManifestBlob(d, layers, config) ==
    [id |-> d, kind |-> "manifest", layers |-> layers, config |-> config,
     manifests |-> <<>>]

\* An image index.
IndexBlob(d, manifests) ==
    [id |-> d, kind |-> "index", layers |-> <<>>, config |-> 0,
     manifests |-> manifests]

SeqsUpTo(S, n) == UNION {[1..k -> S] : k \in 0..n}

\* The bytes that hash to d.
BlobsOf(d) ==
    {DataBlob(d)}
    \cup {ManifestBlob(d, l, c) : l \in SeqsUpTo(1..(d - 1), 1), c \in 0..(d - 1)}
    \cup {IndexBlob(d, m) : m \in SeqsUpTo(1..(d - 1), MaxSubs)}

\* The blobs directories: under each digest the bytes that hash to it, or
\* no file.
BlobDirs == {f \in [Digests -> UNION {BlobsOf(d) : d \in Digests} \cup {NoBlob}] :
                \A d \in Digests : f[d] = NoBlob \/ f[d].id = d}

\* oras.defaults.oci_ref_name_annotation values.
RefNames == {"latest", "v1"}

IndexEntry(d, ref) == [digest |-> d, ref |-> ref]

\* The "manifests" of index.json.
IndexFiles ==
    {<<>>,
     <<IndexEntry(MaxBlobs, "latest")>>,
     <<IndexEntry(MaxBlobs - 1, "v1"), IndexEntry(MaxBlobs, "latest")>>,
     <<IndexEntry(MaxBlobs, "latest"), IndexEntry(MaxBlobs - 1, "latest")>>}

\* The digests the descriptors of a blob name.
RefsIn(blobs, d) ==
    {blobs[d].layers[i] : i \in DOMAIN blobs[d].layers}
    \cup {blobs[d].manifests[i] : i \in DOMAIN blobs[d].manifests}
    \cup (IF blobs[d].config # 0 THEN {blobs[d].config} ELSE {})

\* "for manifest_entry in ...: if annotations.get(...) == tag": the digest
\* of the first entry annotated with tag, 0 when there is none.
RECURSIVE TargetDigest(_, _, _)
TargetDigest(index, tag, i) ==
    IF i > Len(index) THEN 0
    ELSE IF index[i].ref = tag THEN index[i].digest
    ELSE TargetDigest(index, tag, i + 1)

InSeq(x, s) == \E i \in DOMAIN s : s[i] = x

\* "if digest not in collected: collected.append(digest)"
AppendNew(collected, d) ==
    IF d = 0 \/ InSeq(d, collected) THEN collected ELSE Append(collected, d)

RECURSIVE AppendAllNew(_, _, _)
AppendAllNew(collected, ds, i) ==
    IF i > Len(ds) THEN collected
    ELSE AppendAllNew(AppendNew(collected, ds[i]), ds, i + 1)

\* Layout._process_manifest: ok is FALSE when it raises.
RECURSIVE ProcessManifest(_, _, _)
RECURSIVE ProcessSubManifests(_, _, _, _)
ProcessManifest(blobs, digest, collected) ==
    LET manifest == blobs[digest] IN
    IF manifest.kind = "manifest"
    THEN [ok |-> TRUE,
          collected |->
              AppendNew(AppendNew(AppendAllNew(collected, manifest.layers, 1),
                                  manifest.config), digest)]
    ELSE IF manifest.kind = "index"
    THEN LET r == ProcessSubManifests(blobs, manifest.manifests, 1, collected) IN
         IF r.ok THEN [ok |-> TRUE, collected |-> AppendNew(r.collected, digest)]
         ELSE r
    ELSE [ok |-> FALSE, collected |-> collected]

ProcessSubManifests(blobs, subs, i, collected) ==
    IF i > Len(subs) THEN [ok |-> TRUE, collected |-> collected]
    ELSE LET r == ProcessManifest(blobs, subs[i], collected) IN
         IF r.ok THEN ProcessSubManifests(blobs, subs, i + 1, r.collected)
         ELSE r

\* Layout.get_ordered_blobs
GetOrderedBlobs(blobs, index, tag) ==
    LET target_digest == TargetDigest(index, tag, 1) IN
    IF target_digest = 0 THEN [ok |-> FALSE, collected |-> <<>>]
    ELSE ProcessManifest(blobs, target_digest, <<>>)

LayIdle ==
    /\ ypc = "off"
    /\ yBlobs = [d \in Digests |-> NoBlob]
    /\ yIndex = <<>>
    /\ yTag = "latest"
    /\ yOrdered = <<>>

LayInit ==
    /\ ypc = "idle"
    /\ yBlobs \in BlobDirs
    /\ yIndex \in IndexFiles
    /\ yTag \in RefNames
    /\ yOrdered = <<>>

\* get_ordered_blobs(tag) returns the list.
OrderedBlobsReturn ==
    /\ ypc = "idle"
    /\ GetOrderedBlobs(yBlobs, yIndex, yTag).ok
    /\ yOrdered' = GetOrderedBlobs(yBlobs, yIndex, yTag).collected
    /\ ypc' = "returned"
    /\ UNCHANGED <<yBlobs, yIndex, yTag>>
    /\ UNCHANGED notLay

\* get_ordered_blobs(tag) raises: no entry with the tag, a blob file of a
\* manifest missing, a manifest of another mediaType.
OrderedBlobsRaise ==
    /\ ypc = "idle"
    /\ ~GetOrderedBlobs(yBlobs, yIndex, yTag).ok
    /\ ypc' = "raised"
    /\ UNCHANGED <<yBlobs, yIndex, yTag, yOrdered>>
    /\ UNCHANGED notLay

LayNext ==
    \/ OrderedBlobsReturn
    \/ OrderedBlobsRaise

(***************************************************************************)
(* Layout.push_to_registry.                                                *)
(*                                                                         *)
(* The registry keeps the bytes of what it answers 201 for: under the      *)
(* digest for a blob upload and for a PUT of a manifest by digest, under   *)
(* the tag as well for the PUT of manifest_url().  upload_blob is one      *)
(* step, answered by the status of its closing PUT, 0 when it raises.      *)
(***************************************************************************)

\* Targets of a push: with a tag, without one, with an empty one.
PushTargets == {<<"a", ":", "a">>, <<"a">>, <<"a", ":">>}

\* 'if ":" not in target or target.endswith(":")'
TargetOk(target) ==
    /\ InSeq(":", target)
    /\ target[Len(target)] # ":"

NoBlobs == [d \in Digests |-> NoBlob]

\* oras.defaults.oci_index_schema_version
oci_index_schema_version == 2

\* index.json: its schemaVersion and its manifests.
IndexFile(version, manifests) == [schemaVersion |-> version, manifests |-> manifests]

\* No index.json.
NoIndexFile == IndexFile(0, <<>>)

\* The registry: the bytes served for manifests/<digest>, for
\* blobs/<digest> and for manifest_url(), and the Docker-Content-Digest
\* header sent with the latter (0 when none is sent).
EmptyRegistry == [man |-> NoBlobs, blob |-> NoBlobs, tagged |-> NoBlob, header |-> 0]

\* The layouts pushed: no blob file that nothing refers to.
RECURSIVE Reach(_, _)
Reach(blobs, d) == {d} \cup UNION {Reach(blobs, r) : r \in RefsIn(blobs, d)}

PushDirs ==
    {f \in BlobDirs : \A d \in Digests : f[d] # NoBlob => d \in Reach(f, MaxBlobs)}

\* jsonschema.validate(blob_data, schema=oras.schemas.manifest): "config"
\* and "layers" are required.
SchemaOk(blob) == blob.kind = "manifest" => blob.config # 0

\* An upload: m is "UPLOAD" for upload_blob and "PUT" for the PUT of a
\* manifest, whose url ends in tag, or in the digest when tag is <<>>.
SyncEntry(m, tag, digest, status) ==
    [m |-> m, tag |-> tag, digest |-> digest, status |-> status]

\* The registry after it answered the upload of blob under digest.
RegAfterBlob(reg, digest, blob, status) ==
    IF RegStores(status)
    THEN [reg EXCEPT !.blob[digest] = blob]
    ELSE reg

\* The registry after it answered the PUT of a manifest, under a tag when
\* tagged.
RegAfterManifest(reg, digest, blob, status, tagged) ==
    IF ~RegStores(status) THEN reg
    ELSE IF tagged
    THEN [reg EXCEPT !.man[digest] = blob, !.blob[digest] = blob,
                     !.tagged = blob, !.header = blob.id]
    ELSE [reg EXCEPT !.man[digest] = blob, !.blob[digest] = blob]

SyncIdle ==
    /\ xpc = "off"
    /\ xTarget = <<>>
    /\ xBlank = FALSE
    /\ xOrdered = <<>>
    /\ xIdx = 0
    /\ xlog = <<>>
    /\ xReg = EmptyRegistry
    /\ xDigest = 0
    /\ xDir = NoBlobs
    /\ xDirIndex = NoIndexFile
    /\ xWrites = <<>>

LayoutPushInit ==
    /\ ypc = "idle"
    /\ yBlobs \in PushDirs
    /\ yIndex = <<IndexEntry(MaxBlobs, "latest")>>
    /\ yTag \in RefNames
    /\ yOrdered = <<>>
    /\ xpc = "idle"
    /\ xTarget = <<>>
    /\ xBlank \in {b \in BOOLEAN : b => yBlobs[1].kind = "data"}
    /\ xOrdered = <<>>
    /\ xIdx = 0
    /\ xlog = <<>>
    /\ xReg = EmptyRegistry
    /\ xDigest = 0
    /\ xDir = NoBlobs
    /\ xDirIndex = NoIndexFile
    /\ xWrites = <<>>

\* push_to_registry up to the loop: the check of target, get_ordered_blobs.
LayoutPushStart ==
    /\ xpc = "idle"
    /\ \E target \in PushTargets :
        /\ xTarget' = target
        /\ LET r == GetOrderedBlobs(yBlobs, yIndex, yTag) IN
           IF TargetOk(target) /\ r.ok
           THEN xpc' = "pushing" /\ xOrdered' = r.collected /\ xIdx' = 1
           ELSE xpc' = "push_raised" /\ UNCHANGED <<xOrdered, xIdx>>
    /\ UNCHANGED <<xBlank, xlog, xReg, xDigest, xDir, xDirIndex, xWrites>>
    /\ UNCHANGED notSync

\* One pass of the loop, for a blob that is no manifest: upload_blob and
\* the check of its response.
LayoutPushBlob ==
    /\ xpc = "pushing"
    /\ LET digest == xOrdered[xIdx]
           blob == yBlobs[digest]
       IN
       /\ blob.kind \notin {"manifest", "index"}
       /\ IF blob = NoBlob
          THEN xpc' = "push_raised" /\ UNCHANGED <<xlog, xReg, xIdx>>
          ELSE \E status \in PutStatuses :
               /\ xlog' = Append(xlog, SyncEntry("UPLOAD", <<>>, digest, status))
               /\ xReg' = RegAfterBlob(xReg, digest, blob, status)
               /\ IF status # 0
                     /\ Check200Ok(UploadBlobResponse(status, xBlank /\ digest = 1).status)
                  THEN /\ xIdx' = xIdx + 1
                       /\ xpc' = IF xIdx = Len(xOrdered) THEN "pushed" ELSE "pushing"
                  ELSE xpc' = "push_raised" /\ xIdx' = xIdx
    /\ UNCHANGED <<xTarget, xBlank, xOrdered, xDigest, xDir, xDirIndex, xWrites>>
    /\ UNCHANGED notSync

\* One pass of the loop, for an image manifest or an index: the schema
\* check, the PUT by digest or, for the last item, by tag, the check of its
\* response.
LayoutPushManifest ==
    /\ xpc = "pushing"
    /\ LET digest == xOrdered[xIdx]
           blob == yBlobs[digest]
           is_last_blob == xIdx = Len(xOrdered)
           tag == IF is_last_blob
                  THEN ManifestUrl(NewContainer(xTarget, <<>>), <<>>).ref
                  ELSE <<>>
       IN
       /\ blob.kind \in {"manifest", "index"}
       /\ IF ~SchemaOk(blob)
          THEN xpc' = "push_raised" /\ UNCHANGED <<xlog, xReg, xIdx>>
          ELSE \E status \in PutStatuses :
               /\ xlog' = Append(xlog, SyncEntry("PUT", tag, digest, status))
               /\ xReg' = RegAfterManifest(xReg, digest, blob, status, is_last_blob)
               /\ IF status # 0 /\ Check200Ok(status)
                  THEN /\ xIdx' = xIdx + 1
                       /\ xpc' = IF is_last_blob THEN "pushed" ELSE "pushing"
                  ELSE xpc' = "push_raised" /\ xIdx' = xIdx
    /\ UNCHANGED <<xTarget, xBlank, xOrdered, xDigest, xDir, xDirIndex, xWrites>>
    /\ UNCHANGED notSync

(***************************************************************************)
(* Layout.pull_from_registry, _pull_manifest_blobs, _pull_index_blobs and  *)
(* Registry.download_blob.  Each returns the directory it leaves behind;   *)
(* ok is FALSE when it raises.                                             *)
(***************************************************************************)

\* A file pull_from_registry writes: a blob file with its bytes, or
\* oci-layout or index.json.
BlobWrite(digest, bytes) == [file |-> "blob", digest |-> digest, bytes |-> bytes]

MetaWrite(name) == [file |-> name, digest |-> 0, bytes |-> NoBlob]

\* The layout directory during a pull: its blob files, and the files
\* written so far in the order they were written.
LayoutDir(blobs) == [blobs |-> blobs, writes |-> <<>>]

\* The directory after the blob file of the digest is written.
Written(dir, digest, bytes) ==
    [dir EXCEPT !.blobs[digest] = bytes,
                !.writes = Append(@, BlobWrite(digest, bytes))]

\* Registry.download_blob: the bytes served are written as they come; a
\* failure is swallowed for the digest of the empty blob.
DownloadBlob(dir, reg, digest, blank) ==
    IF reg.blob[digest] # NoBlob
    THEN [ok |-> TRUE, dir |-> Written(dir, digest, reg.blob[digest])]
    ELSE [ok |-> blank /\ digest = 1, dir |-> dir]

\* "if not Layout._blob_exists(layout_dir, digest): provider.download_blob"
FetchBlob(dir, reg, digest, blank) ==
    IF dir.blobs[digest] # NoBlob THEN [ok |-> TRUE, dir |-> dir]
    ELSE DownloadBlob(dir, reg, digest, blank)

RECURSIVE FetchBlobs(_, _, _, _, _)
FetchBlobs(dir, reg, digests, i, blank) ==
    IF i > Len(digests) THEN [ok |-> TRUE, dir |-> dir]
    ELSE LET r == FetchBlob(dir, reg, digests[i], blank) IN
         IF r.ok THEN FetchBlobs(r.dir, reg, digests, i + 1, blank) ELSE r

\* "if not Layout._blob_exists(...): blob_path.write_bytes(...)"
StoreNew(dir, digest, bytes) ==
    IF dir.blobs[digest] # NoBlob THEN dir ELSE Written(dir, digest, bytes)

\* Layout._pull_manifest_blobs
PullManifestBlobs(dir, reg, manifest_data, manifest_digest, blank) ==
    LET r1 == FetchBlobs(dir, reg, manifest_data.layers, 1, blank)
        r2 == IF r1.ok /\ manifest_data.config # 0
              THEN FetchBlob(r1.dir, reg, manifest_data.config, blank)
              ELSE r1
    IN IF r2.ok
       THEN [ok |-> TRUE, dir |-> StoreNew(r2.dir, manifest_digest, manifest_data)]
       ELSE r2

\* Layout._pull_index_blobs; depth is the recursion depth still allowed.
RECURSIVE PullIndexBlobs(_, _, _, _, _, _)
RECURSIVE PullSubManifests(_, _, _, _, _, _)
PullIndexBlobs(dir, reg, index_data, index_digest, blank, depth) ==
    LET r == PullSubManifests(dir, reg, index_data.manifests, 1, blank, depth) IN
    IF r.ok
    THEN [ok |-> TRUE, dir |-> StoreNew(r.dir, index_digest, index_data)]
    ELSE r

PullSubManifests(dir, reg, subs, i, blank, depth) ==
    IF i > Len(subs) THEN [ok |-> TRUE, dir |-> dir]
    ELSE IF dir.blobs[subs[i]] # NoBlob
    THEN PullSubManifests(dir, reg, subs, i + 1, blank, depth)
    ELSE LET sub_data == reg.man[subs[i]]
             r == IF sub_data.kind = "manifest"
                  THEN PullManifestBlobs(dir, reg, sub_data, subs[i], blank)
                  ELSE IF sub_data.kind = "index" /\ depth > 0
                  THEN PullIndexBlobs(dir, reg, sub_data, subs[i], blank, depth - 1)
                  ELSE [ok |-> FALSE, dir |-> dir]
         IN IF r.ok
            THEN PullSubManifests(r.dir, reg, subs, i + 1, blank, depth)
            ELSE r

\* Layout.pull_from_registry: the blobs, then oci-layout and index.json;
\* digest is manifest_digest and log the files written, in order.
PullFromRegistry(blobs, reg, container_digest, blank) ==
    LET dir == LayoutDir(blobs)
        manifest_data == reg.tagged
        manifest_digest == IF reg.header # 0 THEN reg.header ELSE container_digest
        r == IF manifest_digest = 0 THEN [ok |-> FALSE, dir |-> dir]
             ELSE IF manifest_data.kind = "manifest"
             THEN PullManifestBlobs(dir, reg, manifest_data, manifest_digest, blank)
             ELSE IF manifest_data.kind = "index"
             THEN PullIndexBlobs(dir, reg, manifest_data, manifest_digest, blank,
                                 MaxBlobs)
             ELSE [ok |-> FALSE, dir |-> dir]
    IN [ok |-> r.ok, dir |-> r.dir.blobs, digest |-> manifest_digest,
        log |-> IF r.ok
                THEN r.dir.writes \o
                     <<MetaWrite("oci-layout"), MetaWrite("index.json")>>
                ELSE r.dir.writes]

\* pull_from_registry(provider, target, tag) as a whole: the blobs, then
\* index.json with its one entry.
LayoutPull ==
    /\ xpc \in {"pushed", "ready"}
    /\ \E r \in {PullFromRegistry(xDir, xReg, xDigest, xBlank)} :
       /\ xDir' = r.dir
       /\ xWrites' = r.log
       /\ IF r.ok
          THEN /\ xpc' = "pulled"
               /\ xDirIndex' = IndexFile(oci_index_schema_version,
                                         <<IndexEntry(r.digest, yTag)>>)
          ELSE xpc' = "pull_raised" /\ xDirIndex' = xDirIndex
    /\ UNCHANGED <<xTarget, xBlank, xOrdered, xIdx, xlog, xReg, xDigest>>
    /\ UNCHANGED notSync

LayoutPushNext ==
    \/ LayoutPushStart
    \/ LayoutPushBlob
    \/ LayoutPushManifest
    \/ LayoutPull

(***************************************************************************)
(* pull_from_registry from a registry that need not be honest, into a      *)
(* directory that need not be empty.                                       *)
(***************************************************************************)

\* The images the registry holds: every digest in use and listed by the
\* walk from the tagged root MaxBlobs, digest 1 a layer, every manifest
\* with a config and a layer.
PullImages ==
    {f \in PushDirs :
        /\ \A d \in Digests : f[d] # NoBlob /\ SchemaOk(f[d])
        /\ \A d \in Digests : f[d].kind = "manifest" => f[d].layers # <<>>
        /\ f[1].kind = "data"
        /\ LET r == GetOrderedBlobs(f, <<IndexEntry(MaxBlobs, "latest")>>, "latest")
           IN r.ok /\ Len(r.collected) = MaxBlobs}

\* Bytes that hash to none of the digests.
Garbage == DataBlob(0)

\* How the registry answers for one digest: "bytes" are the right ones,
\* "garbage" other bytes, "404" none.
ServeModes == {"bytes", "garbage", "404"}

Served(blob, mode) ==
    CASE mode = "bytes" -> blob
      [] mode = "garbage" -> Garbage
      [] mode = "404" -> NoBlob

\* The registry that holds image under the tag of the target, answers for
\* digest odd in the given mode and sends header as Docker-Content-Digest.
RegistryOf(image, odd, mode, header) ==
    LET served == [d \in Digests |-> IF d = odd THEN Served(image[d], mode)
                                    ELSE image[d]]
    IN [man |-> served, blob |-> served, tagged |-> served[MaxBlobs],
        header |-> header]

\* The directory with one blob file in it.
OneFile(d, bytes) == [NoBlobs EXCEPT ![d] = bytes]

LayoutPullInit ==
    \E image \in PullImages, header \in {0, MaxBlobs - 1, MaxBlobs} :
        /\ \/ /\ xBlank = FALSE
              /\ \E odd \in Digests, mode \in ServeModes :
                  xReg = RegistryOf(image, odd, mode, header)
              /\ xDir = NoBlobs
           \/ /\ xBlank = FALSE
              /\ xReg = RegistryOf(image, 1, "bytes", header)
              /\ \E d \in Digests : xDir \in {OneFile(d, image[d]), OneFile(d, Garbage)}
           \/ /\ xBlank = TRUE
              /\ xReg = RegistryOf(image, 1, "404", header)
              /\ xDir = NoBlobs
        /\ ypc = "off"
        /\ yBlobs = NoBlobs
        /\ yIndex = <<>>
        /\ yTag \in RefNames
        /\ yOrdered = <<>>
        /\ xpc = "ready"
        /\ xTarget = <<>>
        /\ xOrdered = <<>>
        /\ xIdx = 0
        /\ xlog = <<>>
        /\ xDigest \in {0, MaxBlobs - 1, MaxBlobs}
        /\ xDirIndex \in {NoIndexFile,
                          IndexFile(oci_index_schema_version,
                                    <<IndexEntry(1, "v1"), IndexEntry(2, "latest")>>)}
        /\ xWrites = <<>>

LayoutPullNext == LayoutPull

(***************************************************************************)
(* Credentials: AuthBackend.logout and AuthBackend._load_auth with the     *)
(* credential helpers (auth/base.py), Registry.logout and                  *)
(* Registry._load_auth (provider.py), iter_localhosts (utils/request.py).  *)
(* A credential is a string; None stands for Python's None and NoEntry     *)
(* for a hostname that is not a key of the auths map.  An entry of the     *)
(* auths map is modelled by its "auth" value, "" when the entry has none.  *)
(***************************************************************************)
Hosts == {"localhost:5000", "127.0.0.1:5000", "ghcr.io"}

None == "None"

NoEntry == "absent"

FileCred == "dTpw"

OldCred == "bzpv"

OldToken == "t0"

\* iter_localhosts: the name, then the name with localhost and 127.0.0.1
\* exchanged when it holds one of them.
IterLocalhosts(name) ==
    CASE name = "localhost:5000" -> <<name, "127.0.0.1:5000">>
      [] name = "127.0.0.1:5000" -> <<name, "localhost:5000">>
      [] OTHER -> <<name>>

AuthMaps == [Hosts -> {NoEntry, "", FileCred}]

NoAuths == [h \in Hosts |-> NoEntry]

\* credHelpers names a helper for at most one hostname here.
HelperMaps ==
    {[h \in Hosts |-> IF h \in S THEN "ecr-login" ELSE ""] :
        S \in {T \in SUBSET Hosts : Cardinality(T) <= 1}}

NoHelpers == [h \in Hosts |-> ""]

Stores == {"", "desktop"}

LogoutClasses == {"Registry", "AuthBackend", "BasicAuth", "TokenAuth", "EcrAuth"}

LoadClasses == {"AuthBackend", "Registry"}

\* What _logout of each class leaves of _basic_auth and token;
\* Registry.logout clears both itself.
LogoutFields(class, basic, tok) ==
    CASE class = "Registry" -> [basic |-> None, token |-> None]
      [] class = "BasicAuth" -> [basic |-> None, token |-> tok]
      [] class \in {"TokenAuth", "EcrAuth"} -> [basic |-> basic, token |-> None]
      [] OTHER -> [basic |-> basic, token |-> tok]

\* The loop of logout: the first of hosts[i..] that is a key is deleted,
\* and the method returns.
RECURSIVE DeleteFirst(_, _, _)
DeleteFirst(auths, hosts, i) ==
    IF i > Len(hosts) THEN auths
    ELSE IF auths[hosts[i]] # NoEntry
         THEN [auths EXCEPT ![hosts[i]] = NoEntry]
         ELSE DeleteFirst(auths, hosts, i + 1)

LogoutAuths(auths, hostname) ==
    IF auths = NoAuths THEN auths
    ELSE DeleteFirst(auths, IterLocalhosts(hostname), 1)

NoExc == "none"

HelperOutcomes == {"ok", "missing", "nonzero", "badjson", "nokeys"}

HelperCred(suffix) == IF suffix = "desktop" THEN "ZDpw" ELSE "ZTpw"

\* _get_auth_from_creds_store: FileNotFoundError and CalledProcessError
\* are caught and give None; json.loads and payload[...] are outside the
\* try block.
GetAuthFromCredsStore(suffix, outcome) ==
    CASE outcome \in {"missing", "nonzero"} -> [raised |-> NoExc, auth |-> None]
      [] outcome = "badjson" -> [raised |-> "JSONDecodeError", auth |-> None]
      [] outcome = "nokeys" -> [raised |-> "KeyError", auth |-> None]
      [] OTHER -> [raised |-> NoExc, auth |-> HelperCred(suffix)]

HelperCall(suffix, hostname, outcome) ==
    [helper |-> suffix, host |-> hostname, outcome |-> outcome]

Loaded(ret, raised, basic, auths, helperCalls) ==
    [ret |-> ret, raised |-> raised, basic |-> basic, auths |-> auths,
     calls |-> helperCalls]

\* The credsStore branch of AuthBackend._load_auth; before holds the
\* helper calls made so far.
LoadFromStore(auths, store, basic, hostname, o2, before) ==
    IF store = "" THEN Loaded(FALSE, NoExc, basic, auths, before)
    ELSE LET r == GetAuthFromCredsStore(store, o2)
             c == Append(before, HelperCall(store, hostname, o2))
         IN  IF r.raised # NoExc THEN Loaded(FALSE, r.raised, basic, auths, c)
             ELSE IF r.auth # None
                  THEN Loaded(TRUE, NoExc, r.auth,
                              [auths EXCEPT ![hostname] = r.auth], c)
                  ELSE Loaded(FALSE, NoExc, basic, auths, c)

\* AuthBackend._load_auth(hostname); o1 and o2 are what the credHelpers
\* helper and the credsStore helper do when they are run.
LoadAuthBackend(auths, helpers, store, basic, hostname, o1, o2) ==
    IF auths[hostname] # NoEntry
    THEN IF auths[hostname] = ""
         THEN Loaded(FALSE, NoExc, basic, auths, <<>>)
         ELSE Loaded(TRUE, NoExc, auths[hostname], auths, <<>>)
    ELSE IF helpers[hostname] # ""
         THEN LET r == GetAuthFromCredsStore(helpers[hostname], o1)
                  c == <<HelperCall(helpers[hostname], hostname, o1)>>
              IN  IF r.raised # NoExc
                  THEN Loaded(FALSE, r.raised, basic, auths, c)
                  ELSE IF r.auth # None
                       THEN Loaded(TRUE, NoExc, r.auth,
                                   [auths EXCEPT ![hostname] = r.auth], c)
                       ELSE LoadFromStore(auths, store, basic, hostname, o2, c)
         ELSE LoadFromStore(auths, store, basic, hostname, o2, <<>>)

\* Registry._load_auth(hostname): the auths map only, no helper is run.
LoadAuthRegistry(auths, basic, hostname) ==
    IF auths[hostname] \in {NoEntry, ""}
    THEN Loaded(FALSE, NoExc, basic, auths, <<>>)
    ELSE Loaded(TRUE, NoExc, auths[hostname], auths, <<>>)

NoLoaded == [ret |-> FALSE, raised |-> NoExc]

AuthIdle ==
    /\ apc = "off"
    /\ aClass = ""
    /\ aHost = ""
    /\ aBasic = None
    /\ aToken = None
    /\ aAuths = NoAuths
    /\ aAuths0 = NoAuths
    /\ aHelpers = NoHelpers
    /\ aStore = ""
    /\ aCalls = <<>>
    /\ aRes = NoLoaded

AuthInit ==
    /\ apc = "ready"
    /\ aClass = ""
    /\ aHost = ""
    /\ aBasic \in {None, OldCred}
    /\ aToken \in {None, OldToken}
    /\ aAuths \in AuthMaps
    /\ aAuths0 = aAuths
    /\ aHelpers \in HelperMaps
    /\ aStore \in Stores
    /\ aCalls = <<>>
    /\ aRes = NoLoaded

\* logout(hostname) of one of the classes.
Logout ==
    /\ apc = "ready"
    /\ \E class \in LogoutClasses, hostname \in Hosts :
        LET f == LogoutFields(class, aBasic, aToken) IN
        /\ aClass' = class
        /\ aHost' = hostname
        /\ aBasic' = f.basic
        /\ aToken' = f.token
        /\ aAuths' = LogoutAuths(aAuths, hostname)
    /\ apc' = "loggedout"
    /\ UNCHANGED <<aAuths0, aHelpers, aStore, aCalls, aRes>>
    /\ UNCHANGED notAuth

\* _load_auth(hostname) of AuthBackend or of Registry, for one candidate
\* hostname of load_configs.
LoadAuth ==
    /\ apc = "ready"
    /\ \E class \in LoadClasses, hostname \in Hosts, o1, o2 \in HelperOutcomes :
        LET r == IF class = "Registry"
                 THEN LoadAuthRegistry(aAuths, aBasic, hostname)
                 ELSE LoadAuthBackend(aAuths, aHelpers, aStore, aBasic,
                                      hostname, o1, o2)
        IN  /\ aClass' = class
            /\ aHost' = hostname
            /\ aBasic' = r.basic
            /\ aAuths' = r.auths
            /\ aCalls' = r.calls
            /\ aRes' = [ret |-> r.ret, raised |-> r.raised]
    /\ apc' = "loaded"
    /\ UNCHANGED <<aToken, aAuths0, aHelpers, aStore>>
    /\ UNCHANGED notAuth

AuthNext == Logout \/ LoadAuth

(***************************************************************************)
(* EcrAuth.authenticate_request (auth/ecr.py).  The responses are those    *)
(* without a Www-Authenticate header and the challenges of service         *)
(* ecr.amazonaws.com whose realm matches AWS_ECR_REALM_PATTERN.  A token   *)
(* is a number: the k-th token GetAuthorizationToken issues is k, and 0    *)
(* is the empty string auth.get("authorizationToken", "") gives when the   *)
(* answer has no token.                                                    *)
(***************************************************************************)
MaxIssued == 3

EcrRealms == {"https://123456789012.dkr.ecr.us-east-1.amazonaws.com/",
              "https://123456789012.dkr.ecr.eu-west-1.amazonaws.com/"}

NoToken == -1

NoAuthorization == [scheme |-> "", token |-> NoToken]

EmptyHeaders == [accept |-> "", authorization |-> NoAuthorization]

NoneHeaders == [accept |-> "None", authorization |-> NoAuthorization]

EcrHeaders ==
    {NoneHeaders, EmptyHeaders,
     [accept |-> "application/json", authorization |-> NoAuthorization],
     [accept |-> "", authorization |-> [scheme |-> "Bearer", token |-> 0]]}

\* headers or {}
HeadersOr(headers) == IF headers = NoneHeaders THEN EmptyHeaders ELSE headers

\* not token or refresh
NeedsToken_IgnoringRefresh(cached, refresh) == cached \in {NoToken, 0}

NeedsToken(cached, refresh) == cached \in {NoToken, 0} \/ refresh

\* result.update(headers); result["Authorization"] = "Basic %s" % token
WithBasic(headers, tok) ==
    [headers EXCEPT !.authorization = [scheme |-> "Basic", token |-> tok]]

NoCall == [kind |-> "none", realm |-> "", refresh |-> FALSE, headers |-> EmptyHeaders, tokens |-> [r \in EcrRealms |-> NoToken], called |-> FALSE]

EcrCall(kind, realm, refresh, headers, called) ==
    [kind |-> kind, realm |-> realm, refresh |-> refresh, headers |-> headers,
     tokens |-> eTokens, called |-> called]

EcrIdle ==
    /\ epc = "off"
    /\ eTokens = [r \in EcrRealms |-> NoToken]
    /\ eIssued = <<>>
    /\ eHdr = EmptyHeaders
    /\ eRetry = FALSE
    /\ eLast = NoCall

EcrInit ==
    /\ epc = "ready"
    /\ eTokens = [r \in EcrRealms |-> NoToken]
    /\ eIssued = <<>>
    /\ eHdr = EmptyHeaders
    /\ eRetry = FALSE
    /\ eLast = NoCall

\* A response without Www-Authenticate: return headers, False.
EcrNoChallenge ==
    /\ epc \in {"ready", "raised"}
    /\ \E headers \in EcrHeaders, refresh \in BOOLEAN :
        /\ eHdr' = HeadersOr(headers)
        /\ eLast' = EcrCall("nochallenge", "", refresh, headers, FALSE)
    /\ eRetry' = FALSE
    /\ epc' = "ready"
    /\ UNCHANGED <<eTokens, eIssued>>
    /\ UNCHANGED notEcr

\* A challenge answered from _tokens.
EcrCached ==
    /\ epc \in {"ready", "raised"}
    /\ \E headers \in EcrHeaders, refresh \in BOOLEAN, realm \in EcrRealms :
        /\ ~NeedsToken(eTokens[realm], refresh)
        /\ eHdr' = WithBasic(HeadersOr(headers), eTokens[realm])
        /\ eLast' = EcrCall("ecr", realm, refresh, headers, FALSE)
    /\ eRetry' = TRUE
    /\ epc' = "ready"
    /\ UNCHANGED <<eTokens, eIssued>>
    /\ UNCHANGED notEcr

\* A challenge for which get_authorization_token is called and answers,
\* with a token or without one.
EcrIssue ==
    /\ epc \in {"ready", "raised"}
    /\ Len(eIssued) < MaxIssued
    /\ \E headers \in EcrHeaders, refresh \in BOOLEAN, realm \in EcrRealms,
          tok \in {0, Len(eIssued) + 1} :
        /\ NeedsToken(eTokens[realm], refresh)
        /\ eTokens' = [eTokens EXCEPT ![realm] = tok]
        /\ eIssued' = Append(eIssued, [realm |-> realm, token |-> tok])
        /\ eHdr' = WithBasic(HeadersOr(headers), tok)
        /\ eLast' = EcrCall("ecr", realm, refresh, headers, TRUE)
    /\ eRetry' = TRUE
    /\ epc' = "ready"
    /\ UNCHANGED notEcr

\* A challenge for which boto3 cannot be imported, or the call to AWS
\* raises: the exception leaves the method.
EcrRaise ==
    /\ epc \in {"ready", "raised"}
    /\ \E headers \in EcrHeaders, refresh \in BOOLEAN, realm \in EcrRealms :
        /\ NeedsToken(eTokens[realm], refresh)
        /\ eLast' = EcrCall("raised", realm, refresh, headers, TRUE)
    /\ epc' = "raised"
    /\ UNCHANGED <<eTokens, eIssued, eHdr, eRetry>>
    /\ UNCHANGED notEcr

EcrNext == EcrNoChallenge \/ EcrCached \/ EcrIssue \/ EcrRaise

(***************************************************************************)
(* Registry.push and the temporary tar.gz it makes of a directory          *)
(* (provider.py, utils/fileio.py make_targz).                              *)
(***************************************************************************)
MaxDirFiles == 3

FileKinds == {"file", "dir"}

KindLists == UNION {[1..n -> FileKinds] : n \in 0..MaxDirFiles}

\* What upload_blob does with a layer: it returns a response with the
\* status, or do_request raises.
UploadOutcomes == {"201", "400", "raise"}

OutcomeStatus(o) == IF o = "201" THEN 201 ELSE 400

\* "if cleanup_blob and os.path.exists(blob): os.remove(blob)"
Cleanup(tmp, i) == tmp \ {i}

DirIdle ==
    /\ mpc = "off"
    /\ mFiles = <<>>
    /\ mIdx = 0
    /\ mTmp = {}
    /\ mMade = {}
    /\ mlog = <<>>
    /\ mErr = "none"

DirInit ==
    /\ mpc = "idle"
    /\ mFiles = <<>>
    /\ mIdx = 0
    /\ mTmp = {}
    /\ mMade = {}
    /\ mlog = <<>>
    /\ mErr = "none"

\* push(files=...) is called.
PushDirStart ==
    /\ mpc = "idle"
    /\ mFiles' \in KindLists
    /\ mIdx' = 1
    /\ mpc' = "loop"
    /\ UNCHANGED <<mTmp, mMade, mlog, mErr>>
    /\ UNCHANGED notDir

\* One pass of the loop over files for a plain file: upload_blob and
\* _check_200_response.
PushDirFile ==
    /\ mpc = "loop"
    /\ mIdx <= Len(mFiles)
    /\ mFiles[mIdx] = "file"
    /\ \E o \in UploadOutcomes :
        /\ mlog' = Append(mlog, [idx |-> mIdx, tmp |-> FALSE, outcome |-> o])
        /\ IF o = "raise"
           THEN mpc' = "raised" /\ mErr' = "ConnectionError" /\ mIdx' = mIdx
           ELSE IF ~Check200Ok(UploadBlobResponse(OutcomeStatus(o), FALSE).status)
           THEN mpc' = "raised" /\ mErr' = "ValueError" /\ mIdx' = mIdx
           ELSE mpc' = "loop" /\ mErr' = mErr /\ mIdx' = mIdx + 1
    /\ UNCHANGED <<mFiles, mTmp, mMade>>
    /\ UNCHANGED notDir

\* One pass of the loop for a directory: make_targz writes the tar.gz to a
\* temporary file, upload_blob sends it, _check_200_response checks the
\* answer, and then the file is removed.
PushDirDirectory ==
    /\ mpc = "loop"
    /\ mIdx <= Len(mFiles)
    /\ mFiles[mIdx] = "dir"
    /\ mMade' = mMade \cup {mIdx}
    /\ \E o \in UploadOutcomes :
        /\ mlog' = Append(mlog, [idx |-> mIdx, tmp |-> TRUE, outcome |-> o])
        /\ IF o = "raise"
           THEN /\ mpc' = "raised" /\ mErr' = "ConnectionError" /\ mIdx' = mIdx
                /\ mTmp' = mTmp \cup {mIdx}
           ELSE IF ~Check200Ok(UploadBlobResponse(OutcomeStatus(o), FALSE).status)
           THEN /\ mpc' = "raised" /\ mErr' = "ValueError" /\ mIdx' = mIdx
                /\ mTmp' = mTmp \cup {mIdx}
           ELSE /\ mpc' = "loop" /\ mErr' = mErr /\ mIdx' = mIdx + 1
                /\ mTmp' = Cleanup(mTmp \cup {mIdx}, mIdx)
    /\ UNCHANGED mFiles
    /\ UNCHANGED notDir

\* After the loop: the config blob and the manifest are uploaded; push
\* returns, or raises when one of them fails.
PushDirFinish ==
    /\ mpc = "loop"
    /\ mIdx > Len(mFiles)
    /\ \E o \in UploadOutcomes :
        IF o = "201"
        THEN mpc' = "returned" /\ mErr' = mErr
        ELSE /\ mpc' = "raised"
             /\ mErr' = IF o = "raise" THEN "ConnectionError" ELSE "ValueError"
    /\ UNCHANGED <<mFiles, mIdx, mTmp, mMade, mlog>>
    /\ UNCHANGED notDir

DirNext ==
    \/ PushDirStart
    \/ PushDirFile
    \/ PushDirDirectory
    \/ PushDirFinish

(***************************************************************************)
(* TokenAuth.authenticate_request, request_anonymous_token and             *)
(* request_token (auth/token.py).  A token is a number: the k-th token     *)
(* the realm issues is k, 0 is None.  The headers handed in are empty, so  *)
(* what is returned is the Authorization header alone.                     *)
(***************************************************************************)
MaxTokens == 3

\* _basic_auth is an attribute set_basic_auth or _load_auth creates.
BasicStates == {"unset", "cred"}

NoTokIn == [www |-> "absent", refresh |-> FALSE, token |-> 0]

NoTokOut == [bearer |-> 0, retry |-> FALSE, raised |-> "none"]

TokReturn(bearer, retry) == [bearer |-> bearer, retry |-> retry, raised |-> "none"]

TokRaise(e) == [bearer |-> 0, retry |-> FALSE, raised |-> e]

\* "if refresh: self.token = None"
AfterRefresh(tok, refresh) == IF refresh THEN 0 ELSE tok

\* "if not hasattr(self, '_basic_auth')"
AnonymousFirst(basic) == basic = "unset"

TokSend(auth, a) == [auth |-> auth, ans |-> a]

TokIdle ==
    /\ bpc = "off"
    /\ bBasic = "unset"
    /\ bToken = 0
    /\ bIssued = 0
    /\ bSends = <<>>
    /\ bIn = NoTokIn
    /\ bOut = NoTokOut

\* A backend with or without a basic credential, with or without a token
\* from an earlier exchange.
TokInit ==
    /\ bpc = "ready"
    /\ bBasic \in BasicStates
    /\ bToken \in {0, 1}
    /\ bIssued = bToken
    /\ bSends = <<>>
    /\ bIn = NoTokIn
    /\ bOut = NoTokOut

\* The response has no Www-Authenticate: return headers, False.
TokenNoChallenge ==
    /\ bpc = "ready"
    /\ \E refresh \in BOOLEAN :
        /\ bToken' = AfterRefresh(bToken, refresh)
        /\ bIn' = [www |-> "absent", refresh |-> refresh, token |-> bToken]
    /\ bSends' = <<>>
    /\ bOut' = TokReturn(0, FALSE)
    /\ UNCHANGED <<bpc, bBasic, bIssued>>
    /\ UNCHANGED notTok

\* A challenge while self.token is set: the token goes into the headers.
TokenCached ==
    /\ bpc = "ready"
    /\ \E refresh \in BOOLEAN, www \in {"norealm", "realm"} :
        /\ AfterRefresh(bToken, refresh) # 0
        /\ bToken' = AfterRefresh(bToken, refresh)
        /\ bIn' = [www |-> www, refresh |-> refresh, token |-> bToken]
        /\ bOut' = TokReturn(AfterRefresh(bToken, refresh), TRUE)
    /\ bSends' = <<>>
    /\ UNCHANGED <<bpc, bBasic, bIssued>>
    /\ UNCHANGED notTok

\* A challenge without a token, _basic_auth not set: the anonymous token
\* is requested; when none comes, request_token fails on the missing realm
\* or on the missing _basic_auth.
TokenAnonymous ==
    /\ bpc = "ready"
    /\ \E refresh \in BOOLEAN, www \in {"norealm", "realm"}, a \in RealmAnswers :
        /\ AfterRefresh(bToken, refresh) = 0
        /\ AnonymousFirst(bBasic)
        /\ a = "token" => bIssued < MaxTokens
        /\ bIn' = [www |-> www, refresh |-> refresh, token |-> bToken]
        /\ IF www = "realm" /\ a = "token"
           THEN /\ bSends' = <<TokSend("none", a)>>
                /\ bIssued' = bIssued + 1
                /\ bToken' = bIssued + 1
                /\ bOut' = TokReturn(bIssued + 1, TRUE)
           ELSE /\ bSends' = IF www = "realm" THEN <<TokSend("none", a)>> ELSE <<>>
                /\ bIssued' = bIssued
                /\ bToken' = 0
                /\ bOut' = TokRaise("AttributeError")
    /\ UNCHANGED <<bpc, bBasic>>
    /\ UNCHANGED notTok

\* A challenge without a token, _basic_auth set: request_token asks the
\* realm with Authorization: Basic.
TokenBasic ==
    /\ bpc = "ready"
    /\ \E refresh \in BOOLEAN, www \in {"norealm", "realm"}, a \in RealmAnswers :
        /\ AfterRefresh(bToken, refresh) = 0
        /\ ~AnonymousFirst(bBasic)
        /\ a = "token" => bIssued < MaxTokens
        /\ bIn' = [www |-> www, refresh |-> refresh, token |-> bToken]
        /\ IF www = "norealm"
           THEN /\ bSends' = <<>>
                /\ bIssued' = bIssued
                /\ bToken' = 0
                /\ bOut' = TokRaise("AttributeError")
           ELSE /\ bSends' = <<TokSend("Basic", a)>>
                /\ IF a = "token"
                   THEN /\ bIssued' = bIssued + 1
                        /\ bToken' = bIssued + 1
                        /\ bOut' = TokReturn(bIssued + 1, TRUE)
                   ELSE /\ bIssued' = bIssued
                        /\ bToken' = 0
                        /\ bOut' = TokReturn(0, FALSE)
    /\ UNCHANGED <<bpc, bBasic>>
    /\ UNCHANGED notTok

\* set_basic_auth, or a credential found by load_configs.
TokenSetBasic ==
    /\ bpc = "ready"
    /\ bBasic = "unset"
    /\ bBasic' = "cred"
    /\ UNCHANGED <<bpc, bToken, bIssued, bSends, bIn, bOut>>
    /\ UNCHANGED notTok

TokNext ==
    \/ TokenNoChallenge
    \/ TokenCached
    \/ TokenAnonymous
    \/ TokenBasic
    \/ TokenSetBasic

(***************************************************************************)
(* One Registry used for several hosts: load_configs, logout,              *)
(* set_basic_auth, set_token_auth, reset_basic_auth and the requests of    *)
(* push and pull (provider.py).  Only the Authorization header of a        *)
(* request is modelled.  Every secret is a string: the credential the      *)
(* docker config holds for a host, the one set_basic_auth is given, the    *)
(* token set_token_auth is given, and the token a realm issues.            *)
(***************************************************************************)
\* Calls of set_basic_auth, set_token_auth, logout, push and pull made on
\* the provider in one behaviour.
MaxSessOps == 3

HostCred(h) ==
    CASE h = "localhost:5000" -> "bG9jYWw6cA"
      [] h = "127.0.0.1:5000" -> "bG9vcDpw"
      [] OTHER -> "Z2hjcjpw"

UserCred == "dXNlcjpw"

UserToken == "user-token"

\* The tokens a realm issues: a new one after every call made on the
\* provider.
TokenNames ==
    <<"token-0", "token-1", "token-2", "token-3", "token-4", "token-5">>

RealmToken(n) == TokenNames[n + 1]

\* The docker config holds, for each host, its credential or no entry.
SessFiles ==
    {[h \in Hosts |-> IF h \in S THEN HostCred(h) ELSE NoEntry] :
        S \in SUBSET Hosts}

NoAuthz == [scheme |-> "", value |-> ""]

Authz(scheme, value) == [scheme |-> scheme, value |-> value]

SessSend(to, host, authz) == [to |-> to, host |-> host, authz |-> authz]

\* "if not self._auths: self._auths = oras.auth.load_configs(configs)"
AuthsOrFile(auths, file) == IF auths = NoAuths THEN file ELSE auths

\* The loop of Registry.load_configs over iter_localhosts: _basic_auth
\* after it.
RECURSIVE LoadConfigs(_, _, _, _)
LoadConfigs(auths, basic, hosts, i) ==
    IF i > Len(hosts) THEN basic
    ELSE LET r == LoadAuthRegistry(auths, basic, hosts[i])
         IN  IF r.ret THEN r.basic
             ELSE LoadConfigs(auths, basic, hosts, i + 1)

\* reset_basic_auth: the Authorization header is deleted, and set again
\* from _basic_auth when there is one.
ResetHeader(hdr, basic) ==
    IF basic # None THEN Authz("Basic", basic) ELSE NoAuthz

\* headers.update(self.headers), for the Authorization header.
UpdateAuthz(req, hdr) == IF hdr # NoAuthz THEN hdr ELSE req

Authenticated(ok, hdr, sends, raised) ==
    [ok |-> ok, hdr |-> hdr, sends |-> sends, raised |-> raised]

\* Registry.authenticate_request with request_anonymous_token: what it
\* returns, self.headers after it, and what it sent to the realm.
AuthenticateRequest(hdr, tok, basic, host, www, a, n) ==
    IF www = "absent" THEN Authenticated(FALSE, hdr, <<>>, FALSE)
    ELSE IF tok # None
    THEN Authenticated(TRUE, Authz("Bearer", basic), <<>>, FALSE)
    ELSE IF hdr = NoAuthz
    THEN IF www = "norealm" THEN Authenticated(FALSE, hdr, <<>>, FALSE)
         ELSE IF a = "token"
              THEN Authenticated(TRUE, Authz("Bearer", RealmToken(n)),
                                 <<SessSend("realm", host, NoAuthz)>>, FALSE)
              ELSE Authenticated(FALSE, hdr,
                                 <<SessSend("realm", host, NoAuthz)>>, FALSE)
    ELSE IF www = "norealm" THEN Authenticated(FALSE, hdr, <<>>, TRUE)
         ELSE IF a = "non200"
              THEN Authenticated(FALSE, hdr,
                                 <<SessSend("realm", host, hdr)>>, FALSE)
              ELSE Authenticated(TRUE,
                                 Authz("Bearer", IF a = "token"
                                                 THEN RealmToken(n)
                                                 ELSE None),
                                 <<SessSend("realm", host, hdr)>>, FALSE)

Dispatched(log, hdr, status, raised) ==
    [log |-> log, hdr |-> hdr, status |-> status, raised |-> raised]

\* Registry.do_request for a request to the host whose Authorization is
\* req: r1 answers the first send, a is what the realm answers, s2 and s3
\* the statuses of the re-send and of the fallback send, and n tells which
\* token the realm issues.
DoRequest(req, hdr, tok, basic, host, r1, a, s2, s3, n) ==
    LET send1 == <<SessSend("registry", host, req)>> IN
    IF ~NeedsAuth(r1.status) THEN Dispatched(send1, hdr, r1.status, FALSE)
    ELSE
    LET au == AuthenticateRequest(hdr, tok, basic, host, r1.www, a, n)
        req2 == IF au.ok THEN UpdateAuthz(req, au.hdr) ELSE req
        log2 == send1 \o au.sends \o
                (IF au.ok THEN <<SessSend("registry", host, req2)>> ELSE <<>>)
        st2 == IF au.ok THEN s2 ELSE r1.status
    IN  IF au.raised THEN Dispatched(send1, au.hdr, 0, TRUE)
        ELSE IF st2 \in {401, 404} /\ au.hdr # NoAuthz
             THEN Dispatched(
                      Append(log2, SessSend("registry", host,
                                            UpdateAuthz(req2, au.hdr))),
                      au.hdr, s3, FALSE)
             ELSE Dispatched(log2, au.hdr, st2, FALSE)

\* What the registry and the realm answer in one call of do_request.  An
\* answer that is never asked for is left at its first value.
Exchanges ==
    {x \in [r1 : RegResponses, a : RealmAnswers,
            s2 : RegStatuses, s3 : RegStatuses] :
        /\ ~NeedsAuth(x.r1.status) =>
               x.r1.www = "absent" /\ x.a = "non200" /\ x.s2 = 200
        /\ x.r1.www # "realm" => x.a = "non200"
        /\ x.s2 \notin {401, 404} => x.s3 = 200}

\* The secrets the provider holds.
Held(basic, tok, hdr) == {basic, tok, hdr.value} \ {None, ""}

SessIdle ==
    /\ spc = "off"
    /\ sFile = NoAuths
    /\ sAuths = NoAuths
    /\ sBasic = None
    /\ sToken = None
    /\ sHdr = NoAuthz
    /\ sTarget = ""
    /\ sLog = <<>>
    /\ sOld = {}
    /\ sOps = 0

\* Registry.__init__, with some docker config on disk.
SessInit ==
    /\ spc = "ready"
    /\ sFile \in SessFiles
    /\ sAuths = NoAuths
    /\ sBasic = None
    /\ sToken = None
    /\ sHdr = NoAuthz
    /\ sTarget = ""
    /\ sLog = <<>>
    /\ sOld = {}
    /\ sOps = 0

\* Registry.set_basic_auth
SessSetBasicAuth ==
    /\ spc = "ready"
    /\ sOps < MaxSessOps
    /\ sBasic' = UserCred
    /\ sHdr' = Authz("Basic", UserCred)
    /\ sOld' = {}
    /\ sOps' = sOps + 1
    /\ UNCHANGED <<spc, sFile, sAuths, sToken, sTarget, sLog>>
    /\ UNCHANGED notSess

\* Registry.set_token_auth
SessSetTokenAuth ==
    /\ spc = "ready"
    /\ sOps < MaxSessOps
    /\ sToken' = UserToken
    /\ sHdr' = Authz("Bearer", UserToken)
    /\ sOld' = {}
    /\ sOps' = sOps + 1
    /\ UNCHANGED <<spc, sFile, sAuths, sBasic, sTarget, sLog>>
    /\ UNCHANGED notSess

\* Registry.logout(hostname); self.headers is not touched.
SessLogout ==
    /\ spc = "ready"
    /\ sOps < MaxSessOps
    /\ \E hostname \in Hosts :
        LET f == LogoutFields("Registry", sBasic, sToken) IN
        /\ sBasic' = f.basic
        /\ sToken' = f.token
        /\ sAuths' = LogoutAuths(sAuths, hostname)
        /\ sTarget' = hostname
    /\ sOld' = Held(sBasic, sToken, sHdr)
    /\ sLog' = <<>>
    /\ sOps' = sOps + 1
    /\ UNCHANGED <<spc, sFile, sHdr>>
    /\ UNCHANGED notSess

\* push and pull up to and with self.load_configs(container).
SessLoadConfigs ==
    /\ spc = "ready"
    /\ sOps < MaxSessOps
    /\ \E host \in Hosts, op \in {"push", "manifest"} :
        LET auths == AuthsOrFile(sAuths, sFile) IN
        /\ sAuths' = auths
        /\ sBasic' = LoadConfigs(auths, sBasic, IterLocalhosts(host), 1)
        /\ sTarget' = host
        /\ spc' = op
    /\ sLog' = <<>>
    /\ sOps' = sOps + 1
    /\ UNCHANGED <<sFile, sToken, sHdr, sOld>>
    /\ UNCHANGED notSess

\* A request of the operation under way: req is its Authorization, hdr
\* self.headers when it is sent, and on is where the operation goes on
\* when the request is answered 200; the operation ends on any other
\* answer and on an exception.
SessRequest(req, hdr, on) ==
    \E x \in Exchanges :
        LET d == DoRequest(req, hdr, sToken, sBasic, sTarget,
                           x.r1, x.a, x.s2, x.s3, sOps)
        IN  /\ sLog' = d.log
            /\ sHdr' = d.hdr
            /\ spc' = IF d.status = 200 THEN on ELSE "ready"
            /\ UNCHANGED <<sFile, sAuths, sBasic, sToken, sTarget, sOld, sOps>>
            /\ UNCHANGED notSess

\* upload_blob up to the POST of put_upload: reset_basic_auth, then the
\* POST with headers of its own.
SessUploadPost ==
    /\ spc \in {"push", "pushed"}
    /\ SessRequest(NoAuthz, ResetHeader(sHdr, sBasic), "put")

\* The PUT of put_upload: headers.update(self.headers) before it is sent.
SessUploadPut ==
    /\ spc = "put"
    /\ SessRequest(sHdr, sHdr, "pushed")

\* upload_manifest: reset_basic_auth, then the PUT with headers of its own;
\* push returns.
SessUploadManifest ==
    /\ spc = "pushed"
    /\ SessRequest(NoAuthz, ResetHeader(sHdr, sBasic), "ready")

\* get_manifest of pull: headers of its own.
SessGetManifest ==
    /\ spc = "manifest"
    /\ SessRequest(NoAuthz, sHdr, "pull")

\* download_blob of pull: get_blob passes headers=self.headers.
SessGetBlob ==
    /\ spc = "pull"
    /\ SessRequest(sHdr, sHdr, "pull")

\* pull returns.
SessPullReturn ==
    /\ spc = "pull"
    /\ spc' = "ready"
    /\ UNCHANGED <<sFile, sAuths, sBasic, sToken, sHdr, sTarget, sLog, sOld, sOps>>
    /\ UNCHANGED notSess

SessNext ==
    \/ SessSetBasicAuth
    \/ SessSetTokenAuth
    \/ SessLogout
    \/ SessLoadConfigs
    \/ SessUploadPost
    \/ SessUploadPut
    \/ SessUploadManifest
    \/ SessGetManifest
    \/ SessGetBlob
    \/ SessPullReturn

(***************************************************************************)
(* Specifications.                                                         *)
(***************************************************************************)

InitRetry == RetryInit /\ DispIdle /\ UpIdle /\ PushIdle /\ ContIdle /\ TarIdle /\ TagsIdle /\ DelIdle /\ LayIdle /\ SyncIdle /\ AuthIdle /\ EcrIdle /\ DirIdle /\ TokIdle /\ SessIdle

SpecRetry == InitRetry /\ [][RetryNext]_vars

InitRequest == DispInit /\ RetryIdle /\ UpIdle /\ PushIdle /\ ContIdle /\ TarIdle /\ TagsIdle /\ DelIdle /\ LayIdle /\ SyncIdle /\ AuthIdle /\ EcrIdle /\ DirIdle /\ TokIdle /\ SessIdle

SpecRequest == InitRequest /\ [][DispNext]_vars

InitUpload == UpInit /\ RetryIdle /\ DispIdle /\ PushIdle /\ ContIdle /\ TarIdle /\ TagsIdle /\ DelIdle /\ LayIdle /\ SyncIdle /\ AuthIdle /\ EcrIdle /\ DirIdle /\ TokIdle /\ SessIdle

SpecUpload == InitUpload /\ [][UpNext]_vars

InitPush == PushInit /\ RetryIdle /\ DispIdle /\ UpIdle /\ ContIdle /\ TarIdle /\ TagsIdle /\ DelIdle /\ LayIdle /\ SyncIdle /\ AuthIdle /\ EcrIdle /\ DirIdle /\ TokIdle /\ SessIdle

SpecPush == InitPush /\ [][PushNext]_vars

InitContainer == ContInit /\ RetryIdle /\ DispIdle /\ UpIdle /\ PushIdle /\ TarIdle /\ TagsIdle /\ DelIdle /\ LayIdle /\ SyncIdle /\ AuthIdle /\ EcrIdle /\ DirIdle /\ TokIdle /\ SessIdle

SpecContainer == InitContainer /\ [][ContNext]_vars

InitTar == TarInit /\ RetryIdle /\ DispIdle /\ UpIdle /\ PushIdle /\ ContIdle /\ TagsIdle /\ DelIdle /\ LayIdle /\ SyncIdle /\ AuthIdle /\ EcrIdle /\ DirIdle /\ TokIdle /\ SessIdle

SpecTar == InitTar /\ [][TarNext]_vars

InitPull == PullInit /\ RetryIdle /\ DispIdle /\ UpIdle /\ ContIdle /\ TarIdle /\ TagsIdle /\ DelIdle /\ LayIdle /\ SyncIdle /\ AuthIdle /\ EcrIdle /\ DirIdle /\ TokIdle /\ SessIdle

SpecPull == InitPull /\ [][PullNext]_vars

InitTags == TagsInit /\ RetryIdle /\ DispIdle /\ UpIdle /\ PushIdle /\ ContIdle /\ TarIdle /\ DelIdle /\ LayIdle /\ SyncIdle /\ AuthIdle /\ EcrIdle /\ DirIdle /\ TokIdle /\ SessIdle

SpecTags == InitTags /\ [][TagsNext]_vars

InitDelete == DelInit /\ RetryIdle /\ DispIdle /\ UpIdle /\ PushIdle /\ ContIdle /\ TarIdle /\ TagsIdle /\ LayIdle /\ SyncIdle /\ AuthIdle /\ EcrIdle /\ DirIdle /\ TokIdle /\ SessIdle

SpecDelete == InitDelete /\ [][DelNext]_vars

InitLayout == LayInit /\ RetryIdle /\ DispIdle /\ UpIdle /\ PushIdle /\ ContIdle /\ TarIdle /\ TagsIdle /\ DelIdle /\ SyncIdle /\ AuthIdle /\ EcrIdle /\ DirIdle /\ TokIdle /\ SessIdle

SpecLayout == InitLayout /\ [][LayNext]_vars

InitLayoutPush == LayoutPushInit /\ RetryIdle /\ DispIdle /\ UpIdle /\ PushIdle /\ ContIdle /\ TarIdle /\ TagsIdle /\ DelIdle /\ AuthIdle /\ EcrIdle /\ DirIdle /\ TokIdle /\ SessIdle

SpecLayoutPush == InitLayoutPush /\ [][LayoutPushNext]_vars

InitLayoutPull == LayoutPullInit /\ RetryIdle /\ DispIdle /\ UpIdle /\ PushIdle /\ ContIdle /\ TarIdle /\ TagsIdle /\ DelIdle /\ AuthIdle /\ EcrIdle /\ DirIdle /\ TokIdle /\ SessIdle

SpecLayoutPull == InitLayoutPull /\ [][LayoutPullNext]_vars

InitAuth == AuthInit /\ RetryIdle /\ DispIdle /\ UpIdle /\ PushIdle /\ ContIdle /\ TarIdle /\ TagsIdle /\ DelIdle /\ LayIdle /\ SyncIdle /\ EcrIdle /\ DirIdle /\ TokIdle /\ SessIdle

SpecAuth == InitAuth /\ [][AuthNext]_vars

InitEcr == EcrInit /\ RetryIdle /\ DispIdle /\ UpIdle /\ PushIdle /\ ContIdle /\ TarIdle /\ TagsIdle /\ DelIdle /\ LayIdle /\ SyncIdle /\ AuthIdle /\ DirIdle /\ TokIdle /\ SessIdle

SpecEcr == InitEcr /\ [][EcrNext]_vars

InitDir == DirInit /\ RetryIdle /\ DispIdle /\ UpIdle /\ PushIdle /\ ContIdle /\ TarIdle /\ TagsIdle /\ DelIdle /\ LayIdle /\ SyncIdle /\ AuthIdle /\ EcrIdle /\ TokIdle /\ SessIdle

SpecDir == InitDir /\ [][DirNext]_vars

InitToken == TokInit /\ RetryIdle /\ DispIdle /\ UpIdle /\ PushIdle /\ ContIdle /\ TarIdle /\ TagsIdle /\ DelIdle /\ LayIdle /\ SyncIdle /\ AuthIdle /\ EcrIdle /\ DirIdle /\ SessIdle

SpecToken == InitToken /\ [][TokNext]_vars
(***************************************************************************)
(* Claims about the retry wrappers (checked under SpecRetry).              *)
(***************************************************************************)

InitSession == SessInit /\ RetryIdle /\ DispIdle /\ UpIdle /\ PushIdle /\ ContIdle /\ TarIdle /\ TagsIdle /\ DelIdle /\ LayIdle /\ SyncIdle /\ AuthIdle /\ EcrIdle /\ DirIdle /\ TokIdle

SpecSession == InitSession /\ [][SessNext]_vars

Is5xx(o) == o.kind = "resp" /\ o.val \in 500..599

IsFatalExc(o) ==
    o.kind = "exc" /\ o.val \in {"SSLError", "AuthenticationException"}

\* C7: one call through the retry wrapper invokes the wrapped request
\* function at most 5 times in total before returning or raising.
C7_AtMostFiveInvocations == calls <= 5

\* C8: when the wrapped request raises an SSL error or an authentication
\* exception, the wrapper propagates it to the caller from that invocation:
\* no sleep follows it and the request is not invoked again.
C8_FatalExceptionNotRetried ==
    \A i \in DOMAIN hist :
        IsFatalExc(hist[i]) =>
            /\ i = Len(hist)
            /\ rpc = "raised"
            /\ rres = hist[i]
            /\ Len(slept) = i - 1

RegistrySends == Cardinality({i \in DOMAIN dlog : dlog[i].to = "registry"})

RealmSends == Cardinality({i \in DOMAIN dlog : dlog[i].to = "realm"})

\* The provider held no basic credential, no token and no Authorization
\* header when the call began.
HeldNothing ==
    snap.basic = "none" /\ snap.token = "none" /\ snap.hdr = "none"

\* No anonymous token can be had: the challenge is missing, names no realm,
\* or the token endpoint answered without a token.
NoAnonymousToken ==
    \/ first.www \in {"absent", "norealm"}
    \/ \E i \in DOMAIN dlog : dlog[i].to = "realm" /\ dlog[i].ans # "token"

C6_HandshakeIff401Or403 ==
    first # NoResp =>
        /\ (dpc = "auth" \/ authCalls > 0) <=> first.status \in {401, 403}
        /\ first.status \notin {401, 403} =>
              /\ RegistrySends = 1
              /\ RealmSends = 0
              /\ authCalls = 0
              /\ dpc \in {"done", "idle"}
              /\ dres = first

(***************************************************************************)
(* Claims about chunked_upload, checked under SpecUpload.                  *)
(***************************************************************************)

PatchIdx == {i \in DOMAIN ulog : ulog[i].m = "PATCH"}

\* The PATCH sent just before the one at position i of the log, if any.
PrevPatch(i) ==
    {j \in PatchIdx : j < i /\ \A k \in PatchIdx : ~(j < k /\ k < i)}

Accepted(status) == status \in {200, 201, 202}

\* C10: the Content-Range of the first PATCH of a chunked upload starts at
\* 0, the range of every later PATCH starts one past the end of the range
\* before it, and a PATCH is only sent once the PATCH before it has been
\* answered with an accepted status.
C10_PatchRangesContiguous ==
    \A i \in PatchIdx :
        /\ PrevPatch(i) = {} => ulog[i].start = 0
        /\ \A j \in PrevPatch(i) :
            /\ ulog[i].start = ulog[j].end + 1
            /\ ulog[i].start > ulog[j].start
            /\ Accepted(ulog[j].status)

\* A chunked upload of three chunks has been closed and has returned.
C10_Witness ==
    /\ upc = "returned"
    /\ uChunked
    /\ Cardinality(PatchIdx) = 3
    /\ \A i \in PatchIdx : Accepted(ulog[i].status)

PatchRange(i) == ulog[i].start..ulog[i].end

\* C11: a chunked upload of S bytes that returned has sent one POST, then
\* ceil(S / ChunkSize) PATCHes, then one PUT whose URL carries the digest;
\* the Content-Length of each PATCH is end - start + 1 and at most
\* ChunkSize; the PATCH ranges are pairwise disjoint and together are
\* exactly the bytes 0..S-1.
C11_ChunkedUploadShape ==
    (upc = "returned" /\ uChunked) =>
        LET n == (uSize + ChunkSize - 1) \div ChunkSize IN
        /\ Len(ulog) = n + 2
        /\ ulog[1].m = "POST"
        /\ PatchIdx = 2..(n + 1)
        /\ ulog[n + 2].m = "PUT"
        /\ ulog[n + 2].digest
        /\ \A i \in PatchIdx :
            /\ ulog[i].len = ulog[i].end - ulog[i].start + 1
            /\ ulog[i].len <= ChunkSize
            /\ ulog[i].len > 0
        /\ \A i, j \in PatchIdx : i # j => PatchRange(i) \cap PatchRange(j) = {}
        /\ UNION {PatchRange(i) : i \in PatchIdx} = 0..(uSize - 1)

\* A chunked upload of two full chunks and one byte has returned.
C11_Witness ==
    /\ upc = "returned"
    /\ uChunked
    /\ uSize = 2 * ChunkSize + 1
    /\ Len(ulog) = 5

\* C12: once a PATCH is answered with a status outside {200, 201, 202},
\* the upload has raised and that PATCH is the last request of the upload.
C12_RejectedPatchEndsUpload ==
    \A i \in PatchIdx :
        (ulog[i].status > 0 /\ ~Accepted(ulog[i].status)) =>
            /\ upc = "raised"
            /\ i = Len(ulog)

\* The second PATCH of an upload was rejected.
C12_Witness ==
    /\ upc = "raised"
    /\ Cardinality(PatchIdx) = 2
    /\ ulog[Len(ulog)].m = "PATCH"
    /\ ulog[Len(ulog)].status = 400

\* The status the registry answered the last request of the upload with.
FinalStatus == ulog[Len(ulog)].status

ReturnsAcceptedOrUnchanged ==
    upc = "returned" =>
        IF IsBlankHash(uSize)
        THEN Accepted(uRes.status)
        ELSE uRes = [status |-> FinalStatus, synth |-> FALSE]

ManifestPuts == {j \in DOMAIN plog : plog[j].kind = "manifest"}

\* The blob uploads of a push are numbered 1..N for the layers, in the
\* order of the files list, and N+1 for the config.
BlobKind(b) == IF b <= Len(pFiles) THEN "layer" ELSE "config"

\* The requests of the blob uploads come in the order of the files list,
\* the config last, each upload a POST followed by a PUT of the digest of
\* its file.
BlobRequestsInOrder ==
    \A k \in DOMAIN plog \ ManifestPuts :
        LET b == (k + 1) \div 2 IN
        /\ b <= Len(pFiles) + 1
        /\ plog[k].m = IF k % 2 = 1 THEN "POST" ELSE "PUT"
        /\ plog[k].idx = b
        /\ plog[k].kind = BlobKind(b)
        /\ b <= Len(pFiles) => plog[k].digest = Digest(FileContent(pFiles[b]))

\* C1 as stated: the blobs are uploaded in the order of the files list and
\* then the config; the manifest PUT is the last request of the push and is
\* sent only after each of the N+1 blob uploads was answered with a status
\* in {200, 201, 202}.
C1_ManifestAfterAllBlobsAnswered2xx ==
    /\ BlobRequestsInOrder
    /\ \A j \in ManifestPuts :
        /\ j = Len(plog)
        /\ j = 2 * (Len(pFiles) + 1) + 1
        /\ \A b \in 1..(Len(pFiles) + 1) : Accepted(plog[2 * b].status)

\* C1, amended: the same, but the upload of a blob whose digest is the
\* empty-blob hash may have been answered with any status.
C1_ManifestAfterAllBlobsUploaded ==
    /\ BlobRequestsInOrder
    /\ \A j \in ManifestPuts :
        /\ j = Len(plog)
        /\ j = 2 * (Len(pFiles) + 1) + 1
        /\ \A b \in 1..(Len(pFiles) + 1) :
            \/ Accepted(plog[2 * b].status)
            \/ plog[2 * b].digest = blank_hash /\ plog[2 * b].status # 0

\* A push of two files has sent its manifest PUT, one of the two being the
\* empty file, whose upload the registry rejected.
C1_Witness ==
    /\ Len(pFiles) = 2
    /\ ManifestPuts # {}
    /\ \E b \in 1..2 : plog[2 * b].status = 400
    /\ \E b \in 1..2 : plog[2 * b].status = 201

\* A request of a blob upload that was not answered with an accepted
\* status, or not answered at all.
FailedUploads == {k \in DOMAIN plog \ ManifestPuts : ~Accepted(plog[k].status)}

\* The closing PUT of the empty blob, rejected by the registry.
RejectedBlank(k) ==
    /\ plog[k].m = "PUT"
    /\ plog[k].digest = blank_hash
    /\ plog[k].status # 0

\* A listed file is missing or fails path validation.
BadListedFile ==
    \E i \in DOMAIN pFiles :
        \/ ~Exists(pFiles[i])
        \/ pValidate /\ ~ValidatePath(pFiles[i])

NoManifestPushed ==
    /\ ppc # "returned"
    /\ ManifestPuts = {}
    /\ regManifest = tagBefore

C3_PushReturnsManifestResponse ==
    ppc = "returned" => pRes.req \in ManifestPuts

\* C4: after a push that returned and a pull with overwrite into the empty
\* outdir that returned, pull's list has one path per file pushed, named by
\* the file's basename, and the file there has the bytes of the file pushed.
C4_PushPullRoundTrip ==
    (ppc = "returned" /\ lpc = "returned" /\ lOverwrite) =>
        /\ Len(lFiles) = Len(pFiles)
        /\ \A i \in DOMAIN pFiles :
            /\ lFiles[i] = OutDir \o <<Basename(pFiles[i])>>
            /\ lFiles[i] \in DOMAIN lOut
            /\ lOut[lFiles[i]] = FileContent(pFiles[i])

(***************************************************************************)
(* Claims about Container, checked under SpecContainer.                    *)
(***************************************************************************)

\* C14: the manifest url of a parsed reference addresses the digest when
\* the reference carries one, and the tag only when it carries none.
C14_ManifestUrlPrefersDigest ==
    cpc = "url" =>
        cUrl.ref = IF cont.digest # <<>> THEN cont.digest ELSE cont.tag

\* C15: the container parsed from the uri of a parsed container has the
\* same registry, namespace, repository, tag and digest.
C15_ParseUriRoundTrip ==
    cpc = "reparsed" => cont2 = cont

(***************************************************************************)
(* Claims about extract_targz, checked under SpecTar.                      *)
(***************************************************************************)

\* The members whose destination is neither outdir nor below it.
OutsideMembers ==
    {i \in DOMAIN tMembers : ~IsPrefix(OutDir, Norm(<<>>, OutDir \o tMembers[i]))}

\* C17: when the destination of some member is not contained in outdir,
\* extract_targz extracts nothing, and its loop over the members does not
\* get past such a member.
C17_ExtractRejectsOutsideMembers ==
    OutsideMembers # {} =>
        /\ tpc # "extracted"
        /\ tFs = {}
        /\ \A i \in OutsideMembers : tIdx <= i

(***************************************************************************)
(* Claims about pull, checked under SpecPull.                              *)
(***************************************************************************)

\* The files this pull made or changed.
PullWrote ==
    {p \in DOMAIN lOut : p \notin DOMAIN lOut0 \/ lOut[p] # lOut0[p]}

\* Where the file name of the layer at index i resolves to.
LayerOutfile(i) ==
    LET layer == lManifest.layers[i]
        filename == IF layer.title = "" THEN layer.digest ELSE layer.title
    IN  Resolve(<<>>, OutDir \o SplitPath(filename), lOut)

\* The layers whose file name resolves to neither outdir nor a path below.
OutsideLayers ==
    {i \in DOMAIN lManifest.layers :
        ~IsPrefix(Resolve(<<>>, OutDir, lOut), LayerOutfile(i))}

\* C16: apart from its temporary archives a pull writes no file outside
\* outdir; for a layer whose file name resolves outside outdir no blob
\* request is sent and the loop over the layers does not get past it.
C16_PullWritesInsideOutdir ==
    /\ \A p \in PullWrote : IsPrefix(OutDir, p) \/ IsPrefix(TmpDir, p)
    /\ \A i \in OutsideLayers :
        /\ lIdx <= i
        /\ \A k \in DOMAIN llog : llog[k].idx # i

\* C18: when a pull has raised a path-traversal error, no file it wrote is
\* left.
C18_TraversalLeavesNothing ==
    (lpc = "raised" /\ lErr = "traversal") => PullWrote = {}

\* The pull is at a layer whose output path exists, with overwrite off.
AtExistingLayer ==
    /\ lpc = "layers"
    /\ lIdx <= Len(lManifest.layers)
    /\ ~lOverwrite
    /\ lIdx \notin OutsideLayers
    /\ PathExists(LayerOutfile(lIdx), lOut)

AllTags == [i \in 1..TagsUpTo(gPages, Len(gPages)) |-> i]

\* What the claim has get_tags return.
ExpectedTags ==
    IF gAll \/ gN >= Len(AllTags) THEN AllTags ELSE SubSeq(AllTags, 1, gN)

NoEmptyLinkedPage == \A j \in 1..(Len(gPages) - 1) : gPages[j] # 0

Deletes == {i \in DOMAIN klog : klog[i].m = "DELETE"}

\* C21: a DELETE is sent only as the second request, after a HEAD on the
\* manifest url of the tag whose response carried a Docker-Content-Digest,
\* and it addresses that digest; a HEAD answered 404 ends delete_tag with
\* False and no DELETE; delete_tag returns True only when the DELETE was
\* answered 202 and raises when it was answered anything else.
C21_DeleteAfterHeadByDigest ==
    /\ \A i \in Deletes :
        /\ i = 2
        /\ klog[1].m = "HEAD"
        /\ klog[1].url.ref = (IF kTag # <<>> THEN kTag ELSE default_tag)
        /\ kDigest # <<>>
        /\ klog[i].url.ref = kDigest
        /\ klog[i].url.prefix = klog[1].url.prefix
        /\ klog[i].url.registry = klog[1].url.registry
    /\ (klog # <<>> /\ klog[1].status = 404) =>
        kpc = "returned" /\ kRes = "False" /\ Deletes = {}
    /\ kRes = "True" => Deletes = {2} /\ klog[2].status = 202
    /\ (Deletes # {} /\ klog[2].status # 202) => kpc = "raised" /\ kRes = "none"
    /\ (Deletes # {} /\ klog[2].status = 202) => kpc = "returned" /\ kRes = "True"

\* delete_tag has returned True after a DELETE addressed to the digest the
\* HEAD on tag v named.
C21_Witness ==
    /\ kpc = "returned"
    /\ kRes = "True"
    /\ kTag = <<"v">>
    /\ Len(klog) = 2
    /\ klog[2].url.ref = <<"m", "2">>

(***************************************************************************)
(* Claims about get_ordered_blobs, checked under SpecLayout.               *)
(***************************************************************************)

\* The digests the bytes under d refer to.
RefsOf(blobs, d) ==
    {blobs[d].layers[i] : i \in DOMAIN blobs[d].layers}
    \cup {blobs[d].manifests[i] : i \in DOMAIN blobs[d].manifests}
    \cup (IF blobs[d].config # 0 THEN {blobs[d].config} ELSE {})

PosIn(s, d) == CHOOSE i \in DOMAIN s : s[i] = d

\* s lists d after each digest d refers to that s lists at all.
AfterItsRefs(blobs, s, d) ==
    \A r \in RefsOf(blobs, d) : InSeq(r, s) => PosIn(s, r) < PosIn(s, d)

\* C22: the list get_ordered_blobs returns has no duplicate, lists every
\* digest after the digests its manifest or index refers to, and ends with
\* the digest of the entry of index.json that carries the tag.
C22_OrderedBlobsDependencyOrder ==
    ypc = "returned" =>
        /\ \A i, j \in DOMAIN yOrdered : yOrdered[i] = yOrdered[j] => i = j
        /\ \A i \in DOMAIN yOrdered : AfterItsRefs(yBlobs, yOrdered, yOrdered[i])
        /\ yOrdered # <<>>
        /\ yOrdered[Len(yOrdered)] = TargetDigest(yIndex, yTag, 1)

(***************************************************************************)
(* Claims about push_to_registry and pull_from_registry after it, checked  *)
(* under SpecLayoutPush.                                                   *)
(***************************************************************************)

\* The uploads whose url ends in a tag.
TaggedPuts == {i \in DOMAIN xlog : xlog[i].tag # <<>>}

\* The registry took upload i.
Took(i) == xlog[i].status \in {200, 201, 202}

\* Upload i is that of the empty blob.
OfEmptyBlob(i) == xBlank /\ xlog[i].digest = 1

\* The uploads follow ordered_blobs, one for each item, and are all sent
\* when the push returns; a manifest or index that is not the last item is
\* PUT by its digest; only the last item is PUT under the tag of the target.
UploadsFollowOrderedBlobs ==
    /\ xpc \in {"pushing", "pushed", "push_raised", "pulled", "pull_raised"} =>
        /\ Len(xlog) <= Len(xOrdered)
        /\ \A i \in DOMAIN xlog : xlog[i].digest = xOrdered[i]
        /\ \A i \in DOMAIN xlog :
            xlog[i].m = (IF yBlobs[xlog[i].digest].kind \in {"manifest", "index"}
                         THEN "PUT" ELSE "UPLOAD")
        /\ \A i \in DOMAIN xlog : i < Len(xOrdered) => xlog[i].tag = <<>>
        /\ \A i \in TaggedPuts :
            /\ i = Len(xOrdered)
            /\ xlog[i].m = "PUT"
            /\ xlog[i].tag = <<"a">>
            /\ xlog[i].digest = TargetDigest(yIndex, yTag, 1)
    /\ xpc = "pushed" => Len(xlog) = Len(xOrdered) /\ TaggedPuts = {Len(xlog)}

C25_PullWritesOneIndexEntry ==
    xpc = "pulled" =>
        /\ xDirIndex.schemaVersion = 2
        /\ Len(xDirIndex.manifests) = 1
        /\ xDirIndex.manifests[1].ref = yTag
        /\ xDirIndex.manifests[1].digest = xReg.tagged.id

\* The digests index.json refers to, directly or through the blob files.
RECURSIVE ReferredFrom(_, _, _)
ReferredFrom(dir, d, depth) ==
    IF depth = 0 \/ dir[d] = NoBlob THEN {d}
    ELSE {d} \cup UNION {ReferredFrom(dir, r, depth - 1) : r \in RefsOf(dir, d)}

Referred ==
    UNION {ReferredFrom(xDir, xDirIndex.manifests[i].digest, MaxBlobs) :
              i \in DOMAIN xDirIndex.manifests}

\* C26: after a pull that returned, every digest index.json refers to,
\* directly or through manifests, has a blob file whose bytes hash to it.
C26_PulledBlobsMatchDigests ==
    xpc = "pulled" =>
        \A d \in Referred : xDir[d] # NoBlob /\ xDir[d].id = d

(***************************************************************************)
(* Claims about logout and credential lookup, checked under SpecAuth.      *)
(***************************************************************************)

Equivalents(hostname) ==
    {IterLocalhosts(hostname)[i] : i \in DOMAIN IterLocalhosts(hostname)}

HasCredential(auths, h) == auths[h] \notin {NoEntry, ""}

\* C27: after logout(H) no token and no basic credential is held, the auths
\* map has no credential under H or under its localhost/127.0.0.1
\* equivalent, and the entries of the other hostnames are as before.
C27_LogoutForgetsHost ==
    apc = "loggedout" =>
        /\ aToken = None
        /\ aBasic = None
        /\ \A h \in Equivalents(aHost) : ~HasCredential(aAuths, h)
        /\ \A h \in Hosts \ Equivalents(aHost) : aAuths[h] = aAuths0[h]

\* The one helper run was the given one, for the hostname looked up, and
\* the lookup found its credential when it gave one, nothing otherwise.
Consulted(helper) ==
    /\ Len(aCalls) = 1
    /\ aCalls[1].helper = helper
    /\ aCalls[1].host = aHost
    /\ IF aCalls[1].outcome = "ok"
       THEN aRes.ret /\ aBasic = HelperCred(helper)
       ELSE ~aRes.ret

\* C28: the lookup for a candidate hostname returns the auth value of its
\* auths entry when there is one, and then runs no helper; otherwise it
\* asks the helper credHelpers names for the hostname when one is named,
\* otherwise the credsStore helper when one is set, otherwise it finds
\* nothing.
C28_LookupOrder ==
    apc = "loaded" =>
        IF HasCredential(aAuths0, aHost)
        THEN aRes.ret /\ aBasic = aAuths0[aHost] /\ aCalls = <<>>
        ELSE IF aHelpers[aHost] # "" THEN Consulted(aHelpers[aHost])
        ELSE IF aStore # "" THEN Consulted(aStore)
        ELSE ~aRes.ret /\ aCalls = <<>>

FailedHelper(call) == call.outcome \in {"missing", "nonzero", "badjson"}

\* C29: a lookup whose helpers were missing, exited non-zero or printed
\* malformed JSON raises nothing, finds nothing, and leaves the auths map
\* and the basic credential as they were.
C29_HelperFailureIsNotFound ==
    (/\ apc = "loaded"
     /\ aCalls # <<>>
     /\ \A i \in DOMAIN aCalls : FailedHelper(aCalls[i])) =>
        /\ aRes.raised = NoExc
        /\ ~aRes.ret
        /\ aAuths = aAuths0
        /\ aBasic \in {None, OldCred}

(***************************************************************************)
(* Claims about EcrAuth.authenticate_request, checked under SpecEcr.       *)
(***************************************************************************)

\* The token GetAuthorizationToken issued last for the realm.
RECURSIVE LastIssued(_, _)
LastIssued(realm, i) ==
    IF i = 0 THEN NoToken
    ELSE IF eIssued[i].realm = realm THEN eIssued[i].token
    ELSE LastIssued(realm, i - 1)

\* No token was cached for the realm of the last challenge: it had no
\* entry, or an empty one.
NoneCached == eLast.tokens[eLast.realm] \in {NoToken, 0}

\* C30: in any sequence of challenges, GetAuthorizationToken is called
\* exactly when no token is cached for the realm or refresh is set; the
\* call returns retry with Authorization: Basic <token>, the token being
\* the last one issued for the realm and the one the cache holds; a
\* response without Www-Authenticate gives back the headers it was given,
\* no retry, and the cache as it was.
C30_EcrTokenCache ==
    /\ eLast.kind \in {"ecr", "raised"} =>
            (eLast.called <=> (NoneCached \/ eLast.refresh))
    /\ eLast.kind = "ecr" =>
            /\ eRetry
            /\ eHdr.authorization = [scheme |-> "Basic", token |-> eTokens[eLast.realm]]
            /\ eTokens[eLast.realm] = LastIssued(eLast.realm, Len(eIssued))
            /\ ~eLast.called => eTokens = eLast.tokens
    /\ eLast.kind = "nochallenge" =>
            /\ ~eRetry
            /\ eHdr = (IF eLast.headers = NoneHeaders THEN EmptyHeaders ELSE eLast.headers)
            /\ eTokens = eLast.tokens

\* A refresh replaced a cached token by a newly issued one.
C30_Witness ==
    /\ eLast.kind = "ecr"
    /\ eLast.refresh
    /\ eLast.called
    /\ eLast.tokens[eLast.realm] > 0
    /\ eTokens[eLast.realm] > eLast.tokens[eLast.realm]
    /\ eHdr.authorization.token = eTokens[eLast.realm]

(***************************************************************************)
(* Claims about the token the provider holds, checked under SpecRequest.   *)
(***************************************************************************)

\* The bearer header of the token held when do_request was called: the one
\* set_token_auth was given, or the one a token exchange left in the headers.
HeldBearer ==
    IF snap.token # "none" THEN "Bearer tok"
    ELSE IF snap.hdr \in {"Bearer anon", "Bearer svc"} THEN snap.hdr
    ELSE "none"

\* C31: when the provider holds a token, the first send of a request carries
\* Authorization: Bearer <that token>, and no request goes to a token
\* endpoint when the registry accepts it.
C31_HeldTokenSentFirst ==
    (dlog # <<>> /\ HeldBearer # "none") =>
        /\ dlog[1].auth = HeldBearer
        /\ first.status = 200 => RealmSends = 0

(***************************************************************************)
(* Claims about the temporary files of push, checked under SpecDir.        *)
(***************************************************************************)

\* C32: when push has returned or raised, no temporary tar.gz it created
\* for a directory layer is left on disk.
C32_NoTmpAfterPush ==
    mpc \in {"returned", "raised"} => mMade \cap mTmp = {}

(***************************************************************************)
(* Claims about the upload session, checked under SpecUpload.              *)
(***************************************************************************)

PutIdx == {i \in DOMAIN ulog : ulog[i].m = "PUT"}

\* C33: a PATCH or PUT is only sent after a session POST that was answered
\* with a Location; after a POST answered without one the upload has failed
\* and nothing else was sent; there is at most one PUT, and it is the last
\* request of the upload.
C33_UploadSessionOrder ==
    /\ (PatchIdx \cup PutIdx # {}) =>
            /\ ulog[1].m = "POST"
            /\ 1 \notin PatchIdx \cup PutIdx
            /\ uLoc \in Locations \ {""}
    /\ (ulog # <<>> /\ uLoc = "") => Len(ulog) = 1 /\ upc = "raised"
    /\ Cardinality(PutIdx) <= 1
    /\ \A i \in PutIdx : i = Len(ulog)
    /\ \A i \in DOMAIN ulog : ulog[i].m = "POST" => i = 1

\* A chunked upload sent two PATCHes and its PUT after a POST that gave a
\* path as Location.
C33_Witness ==
    /\ upc = "returned"
    /\ uChunked
    /\ Cardinality(PatchIdx) = 2
    /\ Cardinality(PutIdx) = 1
    /\ uLoc = "/v2/r/blobs/uploads/1"

(***************************************************************************)
(* Claims about TokenAuth.authenticate_request, checked under SpecToken.   *)
(***************************************************************************)

\* The last call met a challenge while no token was cached (or refresh was
\* asked for, which drops the token).
ChallengedWithoutToken ==
    bIn.www # "absent" /\ (bIn.token = 0 \/ bIn.refresh)

\* C34: on a challenge with no cached token the first request to the realm
\* asks for an anonymous token, and a request with Authorization: Basic is
\* only sent after an anonymous request that gave no token, and only when a
\* basic credential is known.
C34_AnonymousBeforeBasic ==
    ChallengedWithoutToken =>
        /\ bIn.www = "realm" => (bSends # <<>> /\ bSends[1].auth = "none")
        /\ \A i \in DOMAIN bSends :
            bSends[i].auth = "Basic" =>
                /\ i > 1
                /\ bSends[i - 1].auth = "none"
                /\ bSends[i - 1].ans # "token"
                /\ bBasic = "cred"

(***************************************************************************)
(* Claims about the second round of the handshake, checked under           *)
(* SpecRequest.                                                            *)
(***************************************************************************)

\* The request was re-sent after authenticate_request said so, and the
\* re-send was answered 403.
ResendAnswered403 ==
    dpc = "fallback" /\ RegistrySends = 2 /\ resp.status = 403

\* C35: when the request re-sent after authentication is answered 403, the
\* dispatcher's next step is a second call of authenticate_request (the one
\* with refresh set), not the return of that 403.
C35_SecondAuthAfter403 ==
    [][ResendAnswered403 => (dpc' = "auth" /\ authCalls = 1)]_vars

\* C36: every send of the registry request made by one call of do_request,
\* the first one and every re-send after authentication or in the fallback,
\* is made with the provider's tls_verify setting.
C36_EverySendUsesTlsVerify ==
    \A i \in DOMAIN dlog :
        dlog[i].to = "registry" => dlog[i].verify = tlsVerify

(***************************************************************************)
(* Claims about the length of one do_request call, checked under           *)
(* SpecRequest.                                                            *)
(***************************************************************************)

\* The steps of one call in the order the code takes them.
Stage(pc) ==
    CASE pc = "auth" -> 1
      [] pc = "resend" -> 2
      [] pc = "fallback" -> 3
      [] pc \in {"done", "raised"} -> 4
      [] OTHER -> 0

InHandshake == dpc \in {"auth", "resend", "fallback"}

\* C40: one call of do_request sends the registry request at most 3 times
\* and asks a token endpoint at most 2 times, whatever the registry and the
\* token endpoint answer, and the handshake never loops: authenticate_request
\* is called at most once and every step of the call moves on to a later
\* one, so the call ends.
C40_BoundedHandshake ==
    /\ [](RegistrySends <= 3 /\ RealmSends <= 2 /\ authCalls <= 1)
    /\ [][InHandshake => Stage(dpc') > Stage(dpc)]_vars

\* C40 witness: a call that used all three sends and one token request has
\* returned.
C40_Witness ==
    /\ dpc = "done"
    /\ RegistrySends = 3
    /\ RealmSends = 1
    /\ authCalls = 1

(***************************************************************************)
(* Claims about one Registry used for several hosts, checked under         *)
(* SpecSession.                                                            *)
(***************************************************************************)

\* The docker config holds a credential for the host or for its
\* localhost twin.
ConfiguredFor(h) == \E e \in Equivalents(h) : sFile[e] # NoEntry

\* The credential the docker config holds for a host that is neither h nor
\* its localhost twin.
CredOfAnotherHost(c, h) == \E a \in Hosts \ Equivalents(h) : c = HostCred(a)

\* C37: while a push or a pull targets a host the docker config holds no
\* credential for, no request to that host and no request to the realm of
\* its challenge carries a Basic credential that load_configs loaded for
\* another host in an earlier push or pull of the same provider.
C37_NoCredentialAcrossHosts ==
    (sTarget \in Hosts /\ ~ConfiguredFor(sTarget)) =>
        \A i \in DOMAIN sLog :
            sLog[i].authz.scheme = "Basic" =>
                ~CredOfAnotherHost(sLog[i].authz.value, sLog[i].host)

\* C38: after logout, and until set_basic_auth or set_token_auth is called
\* again, no request carries in its Authorization header a credential or a
\* token the provider held when logout was called.
C38_NothingOldAfterLogout ==
    \A i \in DOMAIN sLog : sLog[i].authz.value \notin sOld

(***************************************************************************)
(* Claims about the order in which pull_from_registry writes its files,    *)
(* checked under SpecLayoutPull.                                           *)
(***************************************************************************)

\* The blob files of a directory that was empty before the first k writes
\* of the pull.
DirAfter(k) ==
    [d \in Digests |->
        IF \E i \in 1..k : xWrites[i].file = "blob" /\ xWrites[i].digest = d
        THEN xWrites[CHOOSE i \in 1..k : /\ xWrites[i].file = "blob"
                                         /\ xWrites[i].digest = d].bytes
        ELSE NoBlob]

\* The pull is over and the directory was empty when it began.
PulledIntoEmpty ==
    /\ xpc \in {"pulled", "pull_raised"}
    /\ DirAfter(Len(xWrites)) = xDir

\* Every image manifest among the blob files has its layers and its config
\* among them, and every index its sub-manifests.
DependenciesPresent(dir) ==
    \A d \in Digests :
        /\ dir[d].kind = "manifest" =>
              /\ \A i \in DOMAIN dir[d].layers : dir[dir[d].layers[i]] # NoBlob
              /\ dir[d].config # 0 => dir[dir[d].config] # NoBlob
        /\ dir[d].kind = "index" =>
              \A i \in DOMAIN dir[d].manifests : dir[dir[d].manifests[i]] # NoBlob

\* manifest_digest of pull_from_registry.
RootDigest == IF xReg.header # 0 THEN xReg.header ELSE xDigest

\* C39: during a pull into an empty directory, after every write each image
\* manifest blob file has the blob files of its layers and of its config
\* on disk, each index blob file has those of its sub-manifests, and
\* oci-layout and index.json are written only when the root blob file is
\* there.
C39_DependenciesBeforeDependents ==
    PulledIntoEmpty =>
        \A k \in 0..Len(xWrites) :
            /\ DependenciesPresent(DirAfter(k))
            /\ (k > 0 /\ xWrites[k].file # "blob") =>
                  DirAfter(k - 1)[RootDigest] # NoBlob

====
